---- MODULE Spec2Model ----
(***************************************************************************)
(* Constrained generation loop (TestGen/generate_unit_tests.py,            *)
(* TestGen/generate_with_gpt5.py) and the bounded job poller               *)
(* (mcp/server.py) as state machines.                                      *)
(*                                                                         *)
(* A text is a sequence of line tokens:                                    *)
(*   "H"  the quoted appId header line                                     *)
(*   "S"  the --- separator line                                           *)
(*   "T"  a one-line step               (- tapOn: "Login")                 *)
(*   "M"  a mapping keyword on its own  (- tapOn:)                         *)
(*   "K"  an indented required key line (  id: "login_button")             *)
(* so that string concatenation is sequence concatenation.                 *)
(***************************************************************************)
EXTENDS Integers, Sequences, FiniteSets, TLC

VARIABLES
    \* ---- generation loop ----
    prog,        \* which program runs: "unit" (generate_unit_tests.main) or "gpt5" (generate_with_gpt5.run)
    count,       \* args.count, the number of candidates requested
    i,           \* main's loop variable: index of the candidate being generated
    attempt,     \* the retry loop variable of the candidate being generated
    gpc,         \* position of the generator: "idle", "main", "attempt", "done", "raised"
    tests,       \* main's list of validated candidates
    attempts,    \* the oracle calls made for the current candidate, in order
    totalCalls,  \* client.responses.create calls made since the program started
    result,      \* what the last finished generate_one_with_gpt returned
    last_error,  \* run's last_error
    error,       \* message of the exception that ended the program, "" if none
    stdout,      \* the {"tests": [...]} document printed by main
    outfile,     \* the content written to output_path by run
    stderr,      \* the validation failures printed to sys.stderr, in order
    \* ---- candidate extraction ----
    response,    \* a Proposal Oracle response
    extracted,   \* what extract_tool_input_from_response returned for it
    xpc,         \* "idle", "input", "extracted"
    \* ---- job store and poller ----
    job,         \* the status the Job Store holds for the polled id, "unknown" if it has no such job
    tool,        \* the poll tool that was called: "check_status" or "wait_job_step"
    ppc,         \* position of the poller: "idle", "ready", "loop", "returned", "raised"
    now,         \* time.time(), in seconds since the call
    deadline,    \* the deadline of the current slice
    slice,       \* index into chunks of the current slice
    last_response, \* the snapshot of the last query (last in wait_job_step)
    slept,       \* the poller slept after its last query
    ret,         \* the snapshot the tool returned
    last_answer, \* what the last GET of the poller ended in
    again,       \* the caller has invoked the tool again after a return
    seen_terminal, \* some status query was answered with generated, passed or failed
    step_requested, \* the step_seconds argument wait_job_step was called with
    slice_queried, \* the current slice has issued a status query
    \* ---- submission ----
    user_message,   \* test_modification's arguments
    modified_files,
    related_files,
    payload,     \* the JSON body of the POST
    spc,         \* position of test_modification: "idle", "called", "posting", "returned", "raised"
    sub_ret,     \* the result test_modification returned
    \* ---- truncation ----
    trunc_text,  \* _truncate's arguments
    trunc_limit,
    trunc_once,  \* _truncate(text, limit)
    trunc_twice, \* _truncate(_truncate(text, limit), limit)
    tpc,         \* "idle", "input", "once", "twice"
    \* ---- prompt assembly ----
    bp_modified_files, \* the modifiedFiles of the modification context read by main
    bp_related_files,  \* related_files, each with what reading it gives
    related_bodies,    \* generate_one_with_gpt's dict of the bodies that were read
    prompt,            \* the parts build_prompt joined
    bpc,               \* "idle", "input", "read", "built", "called"
    \* ---- new-file diff ----
    nf_content,  \* the text of the untracked file
    nf_patch,    \* what unified_diff_for_new_file returned for it
    dpc,         \* "idle", "input", "returned"
    \* ---- writers: run's mock path and generate_maestro_yaml.main ----
    wprog,       \* "mock" (generate_with_gpt5.run with mock=True) or "examples" (generate_maestro_yaml.main)
    docs,        \* the documents to write, in order: the mock document, or the examples
    widx,        \* main's loop position in the examples
    written,     \* the contents of the files written so far, in order
    wpc,         \* "idle", "run", "done", "raised"
    \* ---- feedback ----
    fb_logs,             \* give_feedback's arguments
    fb_screenshot_paths,
    fb_user_request,
    fb_ret,              \* what give_feedback returned, decoded
    fpc                  \* "idle", "input", "returned"

genVars == <<prog, count, i, attempt, gpc, tests, attempts, totalCalls, result,
             last_error, error, stdout, outfile, stderr>>
extractVars == <<response, extracted, xpc>>
pollVars == <<job, tool, ppc, now, deadline, slice, last_response, slept, ret,
              last_answer, again, seen_terminal, step_requested, slice_queried>>
submitVars == <<user_message, modified_files, related_files, payload, spc, sub_ret>>
truncVars == <<trunc_text, trunc_limit, trunc_once, trunc_twice, tpc>>
promptVars == <<bp_modified_files, bp_related_files, related_bodies, prompt, bpc>>
diffVars == <<nf_content, nf_patch, dpc>>
writerVars == <<wprog, docs, widx, written, wpc>>
feedbackVars == <<fb_logs, fb_screenshot_paths, fb_user_request, fb_ret, fpc>>
vars == <<genVars, extractVars, pollVars, submitVars, truncVars, promptVars, diffVars,
          writerVars, feedbackVars>>

-----------------------------------------------------------------------------
(* Bounds of the model *)

MaxCount == 2
MaxItems == 2
MaxFrags == 1

-----------------------------------------------------------------------------
(* Python values *)

None == [kind |-> "none", text |-> <<>>]
NonStr == [kind |-> "nonstr", text |-> <<>>]
Absent == [kind |-> "absent", text |-> <<>>]
Str(t) == [kind |-> "str", text |-> t]

\* mutant: only None is falsy
Truthy_not_none(v) == v.kind = "str"

\* Python truthiness of an Optional[str]: None and "" are falsy.
Truthy(v) == v.kind = "str" /\ v.text # <<>>

ValidText == <<"H", "S", "T">>
BareText == <<"H", "S", "M">>
HeadText == <<"H", "S">>
StepText == <<"T">>

-----------------------------------------------------------------------------
(* Grammar Oracle *)

\* the lines of a mapping step after its required key: extras are skipped
RECURSIVE DropExtras(_)
DropExtras(s) == IF s # <<>> /\ Head(s) = "X" THEN DropExtras(Tail(s)) ELSE s

\* mutant: a mapping step needs no required key
RECURSIVE Steps_bare_mapping(_)
Steps_bare_mapping(s) ==
    IF s = <<>> THEN TRUE
    ELSE IF Head(s) = "T" THEN Steps_bare_mapping(Tail(s))
    ELSE IF Head(s) = "M" /\ Len(s) >= 2 /\ s[2] = "K"
         THEN Steps_bare_mapping(DropExtras(Tail(Tail(s))))
    ELSE IF Head(s) = "M" THEN Steps_bare_mapping(DropExtras(Tail(s)))
    ELSE FALSE

\* a step is a one-line step ("T"), or a mapping keyword ("M") followed by its
\* required key line ("K") and any number of extra lines ("X"); a step whose
\* value is outside the allowed set ("B") is no step
RECURSIVE Steps(_)
Steps(s) ==
    IF s = <<>> THEN TRUE
    ELSE IF Head(s) = "T" THEN Steps(Tail(s))
    ELSE IF Head(s) = "M" /\ Len(s) >= 2 /\ s[2] = "K" THEN Steps(DropExtras(Tail(Tail(s))))
    ELSE FALSE

\* mutant: the separator line is optional
GrammarAccepts_no_separator(text) ==
    /\ Len(text) >= 2
    /\ text[1] = "H"
    /\ IF text[2] = "S" THEN Len(text) >= 3 /\ Steps(SubSeq(text, 3, Len(text)))
       ELSE Steps(SubSeq(text, 2, Len(text)))

\* header, separator, then at least one step
GrammarAccepts(text) ==
    /\ Len(text) >= 3
    /\ text[1] = "H"
    /\ text[2] = "S"
    /\ Steps(SubSeq(text, 3, Len(text)))

\* mutant: the parse stops after the header and the separator
validate_header_only(yaml_text) ==
    Len(yaml_text) >= 2 /\ yaml_text[1] = "H" /\ yaml_text[2] = "S"

\* validate_with_lark returns normally (TRUE) or raises (FALSE)
validate_with_lark(yaml_text) == GrammarAccepts(yaml_text)

-----------------------------------------------------------------------------
(* Proposal Oracle responses *)

\* The sequences over S of length 0..n
SeqsUpTo(S, n) == UNION {[1..k -> S] : k \in 0..n}

\* item.input: missing, not a str, or a str (the empty one included)
InputVals == {Absent, NonStr, Str(<<>>), Str(ValidText)}
\* content.text: missing, not a str, or a str
FragVals == {Absent, NonStr, Str(HeadText), Str(StepText)}
\* item.content: missing (present = FALSE) or a list of content parts
ContentVals ==
    {[present |-> FALSE, frags |-> <<>>]}
        \cup {[present |-> TRUE, frags |-> f] : f \in SeqsUpTo(FragVals, MaxFrags)}
Items == [input : InputVals, content : ContentVals]
\* response.output: missing/None (has_output = FALSE) or a list of items
Responses ==
    {[has_output |-> FALSE, output |-> <<>>]}
        \cup {[has_output |-> TRUE, output |-> o] : o \in SeqsUpTo(Items, MaxItems)}

\* "".join(chunks)
RECURSIVE Join(_)
Join(chunks) == IF chunks = <<>> THEN <<>> ELSE Head(chunks) \o Join(Tail(chunks))

\* mutant: the last item that has a str input wins
RECURSIVE LastToolInput(_)
LastToolInput(out) ==
    IF out = <<>> THEN None
    ELSE IF LastToolInput(Tail(out)) # None THEN LastToolInput(Tail(out))
    ELSE IF Head(out).input.kind = "str" THEN Str(Head(out).input.text)
    ELSE None

\* first loop: the input of the first item that has a str input
RECURSIVE FirstToolInput(_)
FirstToolInput(out) ==
    IF out = <<>> THEN None
    ELSE IF Head(out).input.kind = "str" THEN Str(Head(out).input.text)
    ELSE FirstToolInput(Tail(out))

\* inner loop of the fallback: the str texts of one item's content, in order
RECURSIVE ContentChunks(_)
ContentChunks(frags) ==
    IF frags = <<>> THEN <<>>
    ELSE IF Head(frags).kind = "str"
         THEN <<Head(frags).text>> \o ContentChunks(Tail(frags))
         ELSE ContentChunks(Tail(frags))

\* outer loop of the fallback: chunks of all items that have content, in order
RECURSIVE Chunks(_)
Chunks(out) ==
    IF out = <<>> THEN <<>>
    ELSE (IF Head(out).content.present
          THEN ContentChunks(Head(out).content.frags)
          ELSE <<>>) \o Chunks(Tail(out))

extract_tool_input_from_response(resp) ==
    IF ~resp.has_output \/ resp.output = <<>> THEN None
    ELSE IF FirstToolInput(resp.output) # None THEN FirstToolInput(resp.output)
    ELSE IF Chunks(resp.output) # <<>> THEN Str(Join(Chunks(resp.output)))
    ELSE None

-----------------------------------------------------------------------------
(* The responses the Proposal Oracle gives in the generation loop: one of   *)
(* each shape the extraction distinguishes.                                 *)

MapText == <<"H", "S", "M", "K">>
\* a document without the separator line
NoSepText == <<"H", "T">>

NoContent == [present |-> FALSE, frags |-> <<>>]
ToolItem(t) == [input |-> Str(t), content |-> NoContent]
TextItem(frags) == [input |-> Absent, content |-> [present |-> TRUE, frags |-> frags]]
ReasoningItem == [input |-> Absent, content |-> NoContent]
Output(o) == [has_output |-> TRUE, output |-> o]
NoOutput == [has_output |-> FALSE, output |-> <<>>]

OracleResponses ==
    { NoOutput,
      Output(<<>>),
      Output(<<ReasoningItem>>),
      Output(<<ReasoningItem, ToolItem(ValidText)>>),
      Output(<<ToolItem(BareText)>>),
      Output(<<ToolItem(<<>>)>>),
      Output(<<ToolItem(<<>>), TextItem(<<Str(HeadText), Str(StepText)>>)>>),
      Output(<<TextItem(<<Str(HeadText), Str(StepText)>>)>>),
      Output(<<TextItem(<<Str(StepText)>>), TextItem(<<Str(HeadText)>>)>>),
      Output(<<TextItem(<<Str(HeadText)>>), ToolItem(MapText)>>),
      Output(<<ToolItem(NoSepText)>>) }

-----------------------------------------------------------------------------
(* Generation loop *)

UnitAttempts == 2
Gpt5Attempts == 3

\* mutant: one attempt too many
MaxAttempts_plus_one(p) == (IF p = "unit" THEN UnitAttempts ELSE Gpt5Attempts) + 1

\* range(2) in generate_one_with_gpt, range(3) in run
MaxAttempts(p) == IF p = "unit" THEN UnitAttempts ELSE Gpt5Attempts

\* the prompt build_prompt returned, as a sequence of segments
BasePrompt(p) == IF p = "unit" THEN <<"unit.build_prompt">> ELSE <<"gpt5.build_prompt">>

\* the literal appended to the prompt on a retry
Correction(p) ==
    IF p = "unit" THEN <<"CORRECTION: Grammar violation!">>
    ELSE <<"Correction: You previously violated the grammar.">>

RECURSIVE Repeat(_, _)
Repeat(s, n) == IF n = 0 THEN <<>> ELSE s \o Repeat(s, n - 1)

\* mutant: the correction is appended once per failed attempt
AttemptInput_accumulating(p, a) == BasePrompt(p) \o Repeat(Correction(p), a)

\* input=prompt if attempt == 0 else (prompt + "...correction...")
AttemptInput(p, a) == IF a = 0 THEN BasePrompt(p) ELSE BasePrompt(p) \o Correction(p)

RetriesMessage == "Failed to generate valid YAML after retries"
NoToolInputMessage == "No tool input found in response"
ParseErrorMessage == "Parse error: <lark exception>"

NotPrinted == [printed |-> FALSE, tests |-> <<>>]

\* the timeout client.responses.create is called with: the call passes none,
\* and OpenAI(api_key=...) sets none on the client
create_timeout == "none"

\* one record of the call log
Call(tool_input, verdict) ==
    [cand |-> i, attempt |-> attempt, input |-> AttemptInput(prog, attempt),
     candidate |-> tool_input, verdict |-> verdict, timeout |-> create_timeout]

\* mutant: the retry loop variable is shared by the candidates
main_next_candidate_shared ==
    /\ gpc = "main" /\ prog = "unit"
    /\ i < count
    /\ attempt' = attempt
    /\ attempts' = <<>>
    /\ gpc' = "attempt"
    /\ UNCHANGED <<prog, count, i, tests, totalCalls, result, last_error, error,
                   stdout, outfile, stderr>>
    /\ UNCHANGED <<extractVars, pollVars, submitVars, truncVars, promptVars, diffVars, writerVars, feedbackVars>>

\* main, line 245: the for loop takes the next candidate and enters
\* generate_one_with_gpt, whose retry loop starts at attempt 0
main_next_candidate ==
    /\ gpc = "main" /\ prog = "unit"
    /\ i < count
    /\ attempt' = 0
    /\ attempts' = <<>>
    /\ gpc' = "attempt"
    /\ UNCHANGED <<prog, count, i, tests, totalCalls, result, last_error, error,
                   stdout, outfile, stderr>>
    /\ UNCHANGED <<extractVars, pollVars, submitVars, truncVars, promptVars, diffVars, writerVars, feedbackVars>>

\* mutant: the loop stops one candidate early
main_emit_early ==
    /\ gpc = "main" /\ prog = "unit"
    /\ i >= count - 1
    /\ stdout' = [printed |-> TRUE, tests |-> tests]
    /\ gpc' = "done"
    /\ UNCHANGED <<prog, count, i, attempt, tests, attempts, totalCalls, result,
                   last_error, error, outfile, stderr>>
    /\ UNCHANGED <<extractVars, pollVars, submitVars, truncVars, promptVars, diffVars, writerVars, feedbackVars>>

\* main, line 261: the loop is over, the tests are printed
main_emit ==
    /\ gpc = "main" /\ prog = "unit"
    /\ i >= count
    /\ stdout' = [printed |-> TRUE, tests |-> tests]
    /\ gpc' = "done"
    /\ UNCHANGED <<prog, count, i, attempt, tests, attempts, totalCalls, result,
                   last_error, error, outfile, stderr>>
    /\ UNCHANGED <<extractVars, pollVars, submitVars, truncVars, promptVars, diffVars, writerVars, feedbackVars>>

\* mutant: an accepted candidate is kept but the loop goes on while attempts are left
unit_return_late(tool_input) ==
    /\ attempts' = Append(attempts, Call(tool_input, "ok"))
    /\ result' = tool_input
    /\ error' = error
    /\ IF attempt + 1 < (IF prog = "unit" THEN UnitAttempts ELSE Gpt5Attempts)
       THEN /\ attempt' = attempt + 1
            /\ UNCHANGED <<gpc, tests, i>>
       ELSE /\ tests' = Append(tests, tool_input.text)
            /\ i' = i + 1
            /\ gpc' = "main"
            /\ UNCHANGED attempt

\* `return tool_input` into main, which validates again and appends
unit_return(tool_input) ==
    /\ attempts' = Append(attempts, Call(tool_input, "ok"))
    /\ result' = tool_input
    /\ IF validate_with_lark(tool_input.text)
       THEN /\ tests' = Append(tests, tool_input.text)
            /\ i' = i + 1
            /\ gpc' = "main"
            /\ error' = error
       ELSE /\ gpc' = "raised"
            /\ error' = ParseErrorMessage
            /\ UNCHANGED <<tests, i>>
    /\ UNCHANGED attempt

\* mutant: exhaustion returns nothing instead of raising
unit_raise_silent ==
    /\ gpc' = "main"
    /\ i' = i + 1
    /\ error' = ""
    /\ UNCHANGED <<attempt, tests, result>>

\* mutant: the error is recorded and the batch goes on with the next candidate
unit_raise_skip ==
    /\ gpc' = "main"
    /\ i' = i + 1
    /\ error' = RetriesMessage
    /\ UNCHANGED <<attempt, tests, result>>

\* RuntimeError after the loop: main does not catch it
unit_raise ==
    /\ gpc' = "raised"
    /\ error' = RetriesMessage
    /\ UNCHANGED <<i, attempt, tests, result>>

\* `continue`: the next attempt, or the end of the loop
unit_continue(tool_input, verdict) ==
    /\ attempts' = Append(attempts, Call(tool_input, verdict))
    /\ IF attempt + 1 < MaxAttempts(prog)
       THEN /\ attempt' = attempt + 1
            /\ UNCHANGED <<gpc, error, i, tests, result>>
       ELSE unit_raise

\* lines 177-182: {"debug": "Last attempt failed validation", "generated": ..., "error": ...}
LogEntry(tool_input) == [cand |-> i, attempt |-> attempt, generated |-> tool_input]

\* generate_one_with_gpt, lines 138-185: one iteration of the retry loop; a
\* rejected candidate is printed to sys.stderr only `if attempt == 1`
generate_one_attempt(resp) ==
    /\ gpc = "attempt" /\ prog = "unit"
    /\ totalCalls' = totalCalls + 1
    /\ LET tool_input == extract_tool_input_from_response(resp) IN
         IF ~Truthy(tool_input) THEN unit_continue(tool_input, "none")
         ELSE IF validate_with_lark(tool_input.text) THEN unit_return(tool_input)
         ELSE unit_continue(tool_input, "rejected")
    /\ stderr' = (IF Truthy(extract_tool_input_from_response(resp))
                      /\ ~validate_with_lark(extract_tool_input_from_response(resp).text)
                      /\ attempt = 1
                   THEN Append(stderr, LogEntry(extract_tool_input_from_response(resp)))
                   ELSE stderr)
    /\ response' = resp
    /\ UNCHANGED <<prog, count, last_error, stdout, outfile>>
    /\ UNCHANGED <<extracted, xpc>>
    /\ UNCHANGED <<pollVars, submitVars, truncVars, promptVars, diffVars, writerVars, feedbackVars>>

\* run, lines 155-159: the model path; the retry loop starts at attempt 0
run_begin ==
    /\ gpc = "main" /\ prog = "gpt5"
    /\ attempt' = 0
    /\ attempts' = <<>>
    /\ last_error' = ""
    /\ gpc' = "attempt"
    /\ UNCHANGED <<prog, count, i, tests, totalCalls, result, error, stdout, outfile, stderr>>
    /\ UNCHANGED <<extractVars, pollVars, submitVars, truncVars, promptVars, diffVars, writerVars, feedbackVars>>

\* lines 201-204: the validated text is written and run returns 0
run_return(tool_input) ==
    /\ attempts' = Append(attempts, Call(tool_input, "ok"))
    /\ result' = tool_input
    /\ outfile' = tool_input
    /\ gpc' = "done"
    /\ UNCHANGED <<attempt, last_error, error>>

\* mutant: the exit message is always the retries message
run_raise_default(last) ==
    /\ gpc' = "raised"
    /\ error' = RetriesMessage
    /\ UNCHANGED <<attempt, result, outfile>>

\* line 206: raise SystemExit(last_error or "Failed to generate valid YAML after retries")
run_raise(last) ==
    /\ gpc' = "raised"
    /\ error' = IF last # "" THEN last ELSE RetriesMessage
    /\ UNCHANGED <<attempt, result, outfile>>

\* last_error is set, then `continue`: the next attempt, or the end of the loop
run_continue(tool_input, verdict, last) ==
    /\ attempts' = Append(attempts, Call(tool_input, verdict))
    /\ last_error' = last
    /\ IF attempt + 1 < MaxAttempts(prog)
       THEN /\ attempt' = attempt + 1
            /\ UNCHANGED <<gpc, error, result, outfile>>
       ELSE run_raise(last)

\* run, lines 160-206: one iteration of the retry loop
run_attempt(resp) ==
    /\ gpc = "attempt" /\ prog = "gpt5"
    /\ totalCalls' = totalCalls + 1
    /\ LET tool_input == extract_tool_input_from_response(resp) IN
         IF ~Truthy(tool_input) THEN run_continue(tool_input, "none", NoToolInputMessage)
         ELSE IF validate_with_lark(tool_input.text) THEN run_return(tool_input)
         ELSE run_continue(tool_input, "rejected", ParseErrorMessage)
    /\ response' = resp
    /\ UNCHANGED <<prog, count, i, tests, stdout, stderr>>
    /\ UNCHANGED <<extracted, xpc>>
    /\ UNCHANGED <<pollVars, submitVars, truncVars, promptVars, diffVars, writerVars, feedbackVars>>

GenInit ==
    /\ prog \in {"unit", "gpt5"}
    /\ count \in (IF prog = "unit" THEN 0..MaxCount ELSE {1})
    /\ i = 0
    /\ attempt = 0
    /\ gpc = "main"
    /\ tests = <<>>
    /\ attempts = <<>>
    /\ totalCalls = 0
    /\ result = None
    /\ last_error = ""
    /\ error = ""
    /\ stdout = NotPrinted
    /\ outfile = None
    /\ stderr = <<>>

GenIdle ==
    /\ prog = "unit" /\ count = 0 /\ i = 0 /\ attempt = 0 /\ gpc = "idle"
    /\ tests = <<>> /\ attempts = <<>> /\ totalCalls = 0 /\ result = None
    /\ last_error = "" /\ error = "" /\ stdout = NotPrinted /\ outfile = None
    /\ stderr = <<>>

ExtractIdle == response = NoOutput /\ extracted = None /\ xpc = "idle"

\* no GET was made yet
NoAnswer == [kind |-> "none", code |-> 0, body |-> "none", status |-> ""]

\* no snapshot yet: last_response = None
NoSnap == [kind |-> "none", ok |-> FALSE, http |-> 0, shape |-> "none", status |-> ""]

PollIdle ==
    /\ job = "unknown" /\ tool = "none" /\ ppc = "idle" /\ now = 0 /\ deadline = 0
    /\ slice = 0 /\ last_response = NoSnap /\ slept = FALSE /\ ret = NoSnap
    /\ last_answer = NoAnswer /\ again = FALSE /\ seen_terminal = FALSE
    /\ step_requested = 0
    /\ slice_queried = FALSE

\* test_modification has not returned: no result
NoResult == [ok |-> FALSE, status |-> 0, jobId |-> None, error |-> "", server |-> "none"]

\* no payload was built
NoPayload == [userMessage |-> <<>>, modifiedFiles |-> <<>>, relatedFiles |-> <<>>, async |-> FALSE]

SubmitIdle ==
    /\ user_message = None /\ modified_files = <<>> /\ related_files = <<>>
    /\ payload = NoPayload /\ spc = "idle" /\ sub_ret = NoResult

TruncIdle ==
    /\ trunc_text = <<>> /\ trunc_limit = 0 /\ trunc_once = <<>> /\ trunc_twice = <<>>
    /\ tpc = "idle"

DiffIdle == nf_content = <<>> /\ nf_patch = <<>> /\ dpc = "idle"

WriterIdle == wprog = "mock" /\ docs = <<>> /\ widx = 0 /\ written = <<>> /\ wpc = "idle"

\* give_feedback has not returned: no value
NoFeedback ==
    [kind |-> "none", error |-> "", status |-> "", message |-> "",
     test_passed |-> FALSE, test_failed |-> FALSE,
     screenshots_available |-> 0, total_screenshots |-> 0,
     recommendations |-> <<>>, action_needed |-> "", screenshots |-> <<>>,
     total_lines |-> 0, contains_errors |-> FALSE, error_details |-> <<>>,
     primary_focus |-> "", areas_to_review |-> <<>>, suggested_actions |-> <<>>]

FeedbackIdle ==
    /\ fb_logs = [is_str |-> TRUE, lines |-> <<"">>]
    /\ fb_screenshot_paths = [is_list |-> TRUE, items |-> <<>>]
    /\ fb_user_request = "str"
    /\ fb_ret = NoFeedback
    /\ fpc = "idle"

PromptIdle ==
    /\ bp_modified_files = <<>> /\ bp_related_files = <<>> /\ related_bodies = <<>>
    /\ prompt = <<>> /\ bpc = "idle"

GenNext ==
    \/ main_next_candidate
    \/ main_emit
    \/ \E resp \in OracleResponses : generate_one_attempt(resp)
    \/ run_begin
    \/ \E resp \in OracleResponses : run_attempt(resp)

InitGen == GenInit /\ ExtractIdle /\ PollIdle /\ SubmitIdle /\ TruncIdle /\ PromptIdle
    /\ DiffIdle /\ WriterIdle /\ FeedbackIdle

SpecGen == InitGen /\ [][GenNext]_vars

-----------------------------------------------------------------------------
(* Properties of the generation loop *)

\* the candidate of a call is a non-empty text the Grammar Oracle accepts
Acceptable(c) == Truthy(c) /\ GrammarAccepts(c.text)

Last(s) == s[Len(s)]

\* C1: soundness of the loop. Whatever the oracle answers, a text returned by
\* the generator (the result of generate_one_with_gpt, an element of tests,
\* the content written by run) is the candidate of the attempt that just ran
\* and the Grammar Oracle accepts it; the candidate of a rejected attempt is
\* never the result.
C1_Soundness ==
    /\ \A k \in 1..Len(tests) : GrammarAccepts(tests[k])
    /\ result # None => Truthy(result) /\ GrammarAccepts(result.text)
    /\ outfile # None => Truthy(outfile) /\ GrammarAccepts(outfile.text)
    /\ stdout.printed => \A k \in 1..Len(stdout.tests) : GrammarAccepts(stdout.tests[k])
    /\ (attempts # <<>> /\ gpc \in {"main", "done"}) =>
          /\ result = Last(attempts).candidate
          /\ Acceptable(Last(attempts).candidate)
    /\ \A k \in 1..Len(attempts) :
          (Truthy(attempts[k].candidate) /\ ~GrammarAccepts(attempts[k].candidate.text))
              => result # attempts[k].candidate

\* a rejected candidate was followed by an accepted one, which was returned
C1_Witness ==
    /\ Len(attempts) = 2
    /\ attempts[1].candidate = Str(BareText)
    /\ attempts[2].candidate = Str(ValidText)
    /\ result = Str(ValidText)

\* C2: bounded attempts. The oracle calls made for one candidate never exceed
\* K: 2 in generate_one_with_gpt, 3 in run.
C2_BoundedAttempts ==
    /\ prog = "unit" => Len(attempts) <= UnitAttempts
    /\ prog = "gpt5" => Len(attempts) <= Gpt5Attempts /\ totalCalls = Len(attempts)
    /\ \A k \in 1..Len(attempts) : attempts[k].attempt = k - 1

\* all K calls of a candidate were made, in both programs
C2_Witness == prog = "gpt5" /\ Len(attempts) = Gpt5Attempts /\ totalCalls = Gpt5Attempts

\* C3: short-circuit. An attempt whose candidate the Grammar Oracle accepts is
\* the last call made for that candidate: the generator has left the retry
\* loop and its result is that candidate.
C3_ShortCircuit ==
    \A k \in 1..Len(attempts) :
        Acceptable(attempts[k].candidate) =>
            /\ k = Len(attempts)
            /\ gpc # "attempt"
            /\ result = attempts[k].candidate
            /\ \A j \in 1..(k - 1) : ~Acceptable(attempts[j].candidate)

\* the first attempt succeeded although attempts were left
C3_Witness ==
    /\ prog = "gpt5" /\ gpc = "done"
    /\ Len(attempts) = 1
    /\ Acceptable(attempts[1].candidate)
    /\ outfile = attempts[1].candidate

AllFailed ==
    /\ Len(attempts) = (IF prog = "unit" THEN UnitAttempts ELSE Gpt5Attempts)
    /\ \A k \in 1..Len(attempts) : ~Acceptable(attempts[k].candidate)

\* C4: exhaustion. When all K attempts of a candidate failed (no candidate, or
\* a rejected one, in any mix) the generator has made exactly K calls and has
\* failed with an error: nothing is returned, appended, printed or written,
\* and no further call can be made. It fails in no other case.
C4_Exhaustion ==
    /\ AllFailed =>
          /\ gpc = "raised"
          /\ error # ""
          /\ Len(tests) = i
          /\ ~stdout.printed
          /\ outfile = None
          /\ ~ENABLED (\E resp \in OracleResponses :
                          generate_one_attempt(resp) \/ run_attempt(resp))
    /\ gpc = "raised" => AllFailed

\* exhaustion after a mix of a missing and a rejected candidate
C4_Witness ==
    /\ gpc = "raised"
    /\ prog = "unit"
    /\ Len(attempts) = UnitAttempts
    /\ attempts[1].verdict = "none"
    /\ attempts[2].verdict = "rejected"

AllNone == AllFailed /\ \A k \in 1..Len(attempts) : ~Truthy(attempts[k].candidate)

C6_CorrectivePrompt ==
    \A k \in 1..Len(attempts) :
        /\ attempts[k].attempt = k - 1
        /\ k = 1 => attempts[k].input = BasePrompt(prog)
        /\ k > 1 => attempts[k].input = BasePrompt(prog) \o Correction(prog)

\* a third attempt after a missing candidate and a rejected one
C6_Witness ==
    /\ Len(attempts) = 3
    /\ attempts[1].verdict = "none"
    /\ attempts[2].verdict = "rejected"
    /\ attempts[3].input = BasePrompt(prog) \o Correction(prog)

\* C8: fail-fast batch. Once a candidate has failed, the program has stopped:
\* no result list is printed, the candidates validated before are not emitted,
\* and no step (so no oracle call for a later candidate) can follow.
C8_FailFast ==
    error # "" =>
        /\ gpc = "raised"
        /\ ~stdout.printed
        /\ \A k \in 1..Len(attempts) : attempts[k].cand = i
        /\ ~ENABLED GenNext

\* the second candidate of two failed after the first was validated
C8_Witness ==
    /\ error # "" /\ prog = "unit"
    /\ count = 2 /\ i = 1 /\ Len(tests) = 1

\* C9: independent retry budgets. Every candidate starts at attempt 0 with the
\* base prompt and has all K attempts, however many attempts the candidates
\* before it used; a batch makes at most count*K calls.
C9_IndependentBudgets ==
    /\ gpc = "attempt" => attempt = Len(attempts)
    /\ attempts # <<>> => attempts[1].attempt = 0 /\ attempts[1].input = BasePrompt(prog)
    /\ prog = "unit" => totalCalls <= count * UnitAttempts
    /\ prog = "gpt5" => totalCalls <= count * Gpt5Attempts
    /\ (gpc = "raised" /\ prog = "unit") => Len(attempts) = UnitAttempts

\* the second candidate starts after the first one used both its attempts
C9_Witness ==
    /\ prog = "unit" /\ gpc = "attempt"
    /\ i = 1 /\ totalCalls = UnitAttempts /\ attempts = <<>> /\ attempt = 0

-----------------------------------------------------------------------------
(* Candidate extraction on its own: extract_tool_input_from_response        *)
(* (the same text in generate_unit_tests.py and generate_with_gpt5.py)      *)
(* applied to every response of the bounded universe.                       *)

ExtractInit ==
    /\ xpc = "input"
    /\ response \in Responses
    /\ extracted = None

extract_call ==
    /\ xpc = "input"
    /\ extracted' = extract_tool_input_from_response(response)
    /\ xpc' = "extracted"
    /\ UNCHANGED response
    /\ UNCHANGED <<genVars, pollVars, submitVars, truncVars, promptVars, diffVars, writerVars, feedbackVars>>

ExtractNext == extract_call

InitExtract == ExtractInit /\ GenIdle /\ PollIdle /\ SubmitIdle /\ TruncIdle /\ PromptIdle
    /\ DiffIdle /\ WriterIdle /\ FeedbackIdle

SpecExtract == InitExtract /\ [][ExtractNext]_vars

\* positions of the items that carry a str tool input
PayloadIdx(out) == {k \in 1..Len(out) : out[k].input.kind = "str"}

\* positions <<item, part>> of the content parts that carry a str text
FragPos(out) ==
    {p \in (1..Len(out)) \X (1..MaxFrags + 1) :
        /\ out[p[1]].content.present
        /\ p[2] <= Len(out[p[1]].content.frags)
        /\ out[p[1]].content.frags[p[2]].kind = "str"}

Before(p, q) == p[1] < q[1] \/ (p[1] = q[1] /\ p[2] <= q[2])

\* the texts at the positions P, concatenated in response order
RECURSIVE ConcatInOrder(_, _)
ConcatInOrder(out, P) ==
    IF P = {} THEN <<>>
    ELSE LET m == CHOOSE p \in P : \A q \in P : Before(p, q)
         IN  out[m[1]].content.frags[m[2]].text \o ConcatInOrder(out, P \ {m})

\* C7: extraction priority. The result is the str input of the first output
\* item that has one; only when no item has one, it is the concatenation in
\* response order of all str content texts; it is None when there is no
\* output, or neither a tool input nor a text.
C7_ExtractionPriority ==
    xpc = "extracted" =>
        LET out == response.output
            P == PayloadIdx(out)
            F == FragPos(out)
        IN  /\ (~response.has_output \/ out = <<>>) => extracted = None
            /\ P # {} =>
                  extracted = out[CHOOSE k \in P : \A n \in P : k <= n].input
            /\ (P = {} /\ F # {}) => extracted = Str(ConcatInOrder(out, F))
            /\ (P = {} /\ F = {}) => extracted = None

\* a tool input in the second item wins over a text in the first
C7_Witness ==
    /\ xpc = "extracted"
    /\ response.has_output
    /\ Len(response.output) = 2
    /\ FragPos(response.output) # {}
    /\ response.output[1].input.kind # "str"
    /\ response.output[2].input = Str(ValidText)
    /\ extracted = Str(ValidText)

-----------------------------------------------------------------------------
(* Job Store, as the poller sees it through GET /api/job/{id} *)

JobStatuses == {"queued", "running", "generated", "passed", "failed"}

\* mutant: a failed job is queued again
JobSuccessors_requeue(st) ==
    CASE st = "queued" -> {"running"}
      [] st = "running" -> {"generated", "failed"}
      [] st = "generated" -> {"passed", "failed"}
      [] st = "failed" -> {"queued"}
      [] OTHER -> {}

\* the worker of the job moves it along queued -> running -> {generated -> passed | failed}
JobSuccessors(st) ==
    CASE st = "queued" -> {"running"}
      [] st = "running" -> {"generated", "failed"}
      [] st = "generated" -> {"passed", "failed"}
      [] OTHER -> {}

job_advance ==
    /\ \/ ppc \in {"ready", "loop"}
       \/ ppc = "returned" /\ tool = "get_job_status"
    /\ \E st \in JobSuccessors(job) : job' = st
    /\ UNCHANGED <<tool, ppc, now, deadline, slice, last_response, slept, ret>>
    /\ UNCHANGED <<genVars, extractVars, submitVars, truncVars, promptVars, diffVars, writerVars, feedbackVars>>
    /\ UNCHANGED <<last_answer, again, seen_terminal, step_requested>>
    /\ UNCHANGED slice_queried

\* What one GET can end in: a transport error (connection error, timeout), or
\* an HTTP response whose body is a JSON object (with or without a status
\* key), not JSON at all, or JSON that is no object (null, a list, a string).
TransportError == [kind |-> "transport", code |-> 0, body |-> "none", status |-> ""]
HttpAnswer(code, body, st) == [kind |-> "http", code |-> code, body |-> body, status |-> st]

Answers(st) ==
    { TransportError,
      HttpAnswer(500, "non_json", ""),
      HttpAnswer(200, "json_other", ""),
      IF st = "unknown" THEN HttpAnswer(404, "json_dict", "")
                        ELSE HttpAnswer(200, "json_dict", st),
      IF st = "unknown" THEN HttpAnswer(404, "json_other", "")
                        ELSE HttpAnswer(200, "json_dict", st) }

\* the Job Store answered the GET with a job in a terminal status
AnswersTerminal(ans) ==
    /\ ans.kind = "http" /\ ans.body = "json_dict"
    /\ ans.status \in {"generated", "passed", "failed"}

-----------------------------------------------------------------------------
(* Bounded poller *)

API_TIMEOUT_SECONDS == 600
GetTimeoutCap == 8
SleepSeconds == 1
StepCap == 8
StepFloor == 1

Min(a, b) == IF a < b THEN a ELSE b
Max(a, b) == IF a > b THEN a ELSE b

\* timeout=min(API_TIMEOUT_SECONDS, 8)
GetTimeout == Min(API_TIMEOUT_SECONDS, GetTimeoutCap)

\* requests.post(url, json=payload, timeout=min(API_TIMEOUT_SECONDS, 10))
PostTimeoutCap == 10
PostTimeout == Min(API_TIMEOUT_SECONDS, PostTimeoutCap)

\* a request returns or fails within its timeout
Latencies == 0..GetTimeout

chunks == <<8, 8, 4>>

\* mutant: failed and generated are not taken as terminal
IsTerminal_passed_only(st) == st = "passed"

\* mutant: a running job ends the poll
IsTerminal_running(st) == st \in {"running", "generated", "passed", "failed"}

\* status in {"generated", "passed", "failed"}
IsTerminal(st) == st \in {"generated", "passed", "failed"}

\* {"ok": False, "error": "failed to get status: ..."}
ErrSnap == [kind |-> "error", ok |-> FALSE, http |-> 0, shape |-> "none", status |-> ""]
\* {"ok": False, "error": "no status"}
NoStatusSnap == [kind |-> "nostatus", ok |-> FALSE, http |-> 0, shape |-> "none", status |-> ""]

\* {"ok": resp.status_code < 400, "status": resp.status_code, "job": data}, where
\* data is resp.json(), or {"text": resp.text[:500]} when the body is not JSON
JobSnap(ans) ==
    [kind |-> "job", ok |-> ans.code < 400, http |-> ans.code,
     shape |-> (CASE ans.body = "json_dict" -> "dict"
                  [] ans.body = "non_json" -> "text"
                  [] OTHER -> "other"),
     status |-> ans.status]

\* mutant: a transport error is reported as a failed job
Snapshot_transport_failed(ans) ==
    IF ans.kind = "transport"
    THEN [kind |-> "job", ok |-> FALSE, http |-> 0, shape |-> "dict", status |-> "failed"]
    ELSE JobSnap(ans)

\* the snapshot one GET gives (get_job_status; lines 342-361 of check_status)
Snapshot(ans) == IF ans.kind = "transport" THEN ErrSnap ELSE JobSnap(ans)

\* mutant: the first slice has no time at all
check_status_begin_no_budget ==
    /\ ppc = "ready"
    /\ tool' = "check_status"
    /\ slice' = 1
    /\ deadline' = now
    /\ last_response' = NoSnap
    /\ slept' = FALSE
    /\ ppc' = "loop"
    /\ UNCHANGED <<job, now, ret>>
    /\ UNCHANGED <<genVars, extractVars, submitVars, truncVars, promptVars, diffVars, writerVars, feedbackVars>>
    /\ UNCHANGED <<last_answer, again, seen_terminal, step_requested>>
    /\ slice_queried' = FALSE

\* lines 332-339: the first slice starts
check_status_begin ==
    /\ ppc = "ready"
    /\ tool' = "check_status"
    /\ slice' = 1
    /\ deadline' = now + chunks[1]
    /\ last_response' = NoSnap
    /\ slept' = FALSE
    /\ ppc' = "loop"
    /\ UNCHANGED <<job, now, ret>>
    /\ UNCHANGED <<genVars, extractVars, submitVars, truncVars, promptVars, diffVars, writerVars, feedbackVars>>
    /\ UNCHANGED <<last_answer, again, seen_terminal, step_requested>>
    /\ slice_queried' = FALSE

\* lines 340-363: one iteration of the while loop, taking lat seconds for the GET
check_status_query(ans, lat) ==
    /\ ppc = "loop" /\ tool = "check_status"
    /\ now < deadline
    /\ last_response' = Snapshot(ans)
    /\ LET status == IF ans.kind = "http" /\ ans.body # "json_other"
                     THEN ans.status ELSE ""
       IN  IF ans.kind = "http" /\ IsTerminal(status)
           THEN /\ ret' = Snapshot(ans)
                /\ ppc' = "returned"
                /\ now' = now + lat
                /\ slept' = FALSE
           ELSE /\ now' = now + lat + SleepSeconds
                /\ slept' = TRUE
                /\ UNCHANGED <<ret, ppc>>
    /\ UNCHANGED <<job, tool, deadline, slice>>
    /\ UNCHANGED <<genVars, extractVars, submitVars, truncVars, promptVars, diffVars, writerVars, feedbackVars>>
    /\ last_answer' = ans
    /\ seen_terminal' = (seen_terminal \/ AnswersTerminal(ans))
    /\ UNCHANGED step_requested
    /\ slice_queried' = TRUE
    /\ UNCHANGED again

\* mutant: after the last slice the fallback is returned, not the last snapshot
check_status_slice_end_nostatus ==
    /\ ppc = "loop" /\ tool = "check_status"
    /\ now >= deadline
    /\ IF slice < Len(chunks)
       THEN /\ slice' = slice + 1
            /\ deadline' = now + chunks[slice + 1]
            /\ slice_queried' = FALSE
            /\ UNCHANGED <<ret, ppc>>
       ELSE /\ ret' = NoStatusSnap
            /\ ppc' = "returned"
            /\ UNCHANGED <<slice, deadline, slice_queried>>
    /\ UNCHANGED <<job, tool, now, last_response, slept>>
    /\ UNCHANGED <<genVars, extractVars, submitVars, truncVars, promptVars, diffVars, writerVars, feedbackVars>>
    /\ UNCHANGED <<last_answer, again, seen_terminal, step_requested>>

\* lines 338-340 and 365: the slice is over; the next one starts, or the call returns
check_status_slice_end ==
    /\ ppc = "loop" /\ tool = "check_status"
    /\ now >= deadline
    /\ IF slice < Len(chunks)
       THEN /\ slice' = slice + 1
            /\ deadline' = now + chunks[slice + 1]
            /\ slice_queried' = FALSE
            /\ UNCHANGED <<ret, ppc>>
       ELSE /\ ret' = (IF last_response # NoSnap THEN last_response ELSE NoStatusSnap)
            /\ ppc' = "returned"
            /\ UNCHANGED <<slice, deadline, slice_queried>>
    /\ UNCHANGED <<job, tool, now, last_response, slept>>
    /\ UNCHANGED <<genVars, extractVars, submitVars, truncVars, promptVars, diffVars, writerVars, feedbackVars>>
    /\ UNCHANGED <<last_answer, again, seen_terminal, step_requested>>

StepInputs == {-1, 0, 1, 3, 8, 9}

\* mutant: the slice is as long as the caller asks
wait_job_step_begin_unclamped(step_seconds) ==
    /\ ppc = "ready"
    /\ tool' = "wait_job_step"
    /\ slice' = 1
    /\ deadline' = now + step_seconds
    /\ last_response' = NoSnap
    /\ slept' = FALSE
    /\ ppc' = "loop"
    /\ UNCHANGED <<job, now, ret>>
    /\ UNCHANGED <<genVars, extractVars, submitVars, truncVars, promptVars, diffVars, writerVars, feedbackVars>>
    /\ UNCHANGED <<last_answer, again, seen_terminal>>
    /\ step_requested' = step_seconds
    /\ slice_queried' = FALSE

\* lines 310-314: step_seconds is clamped to 1..8 and the slice starts
wait_job_step_begin(step_seconds) ==
    /\ ppc = "ready"
    /\ tool' = "wait_job_step"
    /\ slice' = 1
    /\ deadline' = now + Max(StepFloor, Min(StepCap, step_seconds))
    /\ last_response' = NoSnap
    /\ slept' = FALSE
    /\ ppc' = "loop"
    /\ UNCHANGED <<job, now, ret>>
    /\ UNCHANGED <<genVars, extractVars, submitVars, truncVars, promptVars, diffVars, writerVars, feedbackVars>>
    /\ UNCHANGED <<last_answer, again, seen_terminal>>
    /\ step_requested' = step_seconds
    /\ slice_queried' = FALSE

\* lines 315-321: one iteration of the while loop. job.get("status") raises
\* AttributeError when the JSON body is not an object.
wait_job_step_query(ans, lat) ==
    /\ ppc = "loop" /\ tool = "wait_job_step"
    /\ now < deadline
    /\ last_response' = Snapshot(ans)
    /\ IF ans.kind = "http" /\ ans.body = "json_other"
       THEN /\ ppc' = "raised"
            /\ now' = now + lat
            /\ slept' = FALSE
            /\ UNCHANGED ret
       ELSE IF IsTerminal(ans.status)
       THEN /\ ret' = Snapshot(ans)
            /\ ppc' = "returned"
            /\ now' = now + lat
            /\ slept' = FALSE
       ELSE /\ now' = now + lat + SleepSeconds
            /\ slept' = TRUE
            /\ UNCHANGED <<ret, ppc>>
    /\ UNCHANGED <<job, tool, deadline, slice>>
    /\ UNCHANGED <<genVars, extractVars, submitVars, truncVars, promptVars, diffVars, writerVars, feedbackVars>>
    /\ last_answer' = ans
    /\ seen_terminal' = (seen_terminal \/ AnswersTerminal(ans))
    /\ UNCHANGED step_requested
    /\ slice_queried' = TRUE
    /\ UNCHANGED again

\* mutant: a poll that ends on an error snapshot marks the job failed
wait_job_step_end_marks_failed ==
    /\ ppc = "loop" /\ tool = "wait_job_step"
    /\ now >= deadline
    /\ ret' = (IF last_response # NoSnap THEN last_response ELSE NoStatusSnap)
    /\ ppc' = "returned"
    /\ job' = (IF last_response.kind = "error" /\ job \in {"queued", "running"}
               THEN "failed" ELSE job)
    /\ UNCHANGED <<tool, now, deadline, slice, last_response, slept>>
    /\ UNCHANGED <<genVars, extractVars, submitVars, truncVars, promptVars, diffVars, writerVars, feedbackVars>>
    /\ UNCHANGED <<last_answer, again, seen_terminal, step_requested>>
    /\ UNCHANGED slice_queried

\* line 322: the slice is over
wait_job_step_end ==
    /\ ppc = "loop" /\ tool = "wait_job_step"
    /\ now >= deadline
    /\ ret' = (IF last_response # NoSnap THEN last_response ELSE NoStatusSnap)
    /\ ppc' = "returned"
    /\ UNCHANGED <<job, tool, now, deadline, slice, last_response, slept>>
    /\ UNCHANGED <<genVars, extractVars, submitVars, truncVars, promptVars, diffVars, writerVars, feedbackVars>>
    /\ UNCHANGED <<last_answer, again, seen_terminal, step_requested>>
    /\ UNCHANGED slice_queried

\* get_job_status, lines 286-300: one GET, whose snapshot is returned; the
\* caller may call it again, and the clock counts from the start of the call
get_job_status_call(ans, lat) ==
    /\ \/ ppc = "ready"
       \/ ppc = "returned" /\ tool = "get_job_status"
    /\ tool' = "get_job_status"
    /\ ret' = Snapshot(ans)
    /\ last_answer' = ans
    /\ seen_terminal' = (seen_terminal \/ AnswersTerminal(ans))
    /\ UNCHANGED step_requested
    /\ slice_queried' = TRUE
    /\ now' = lat
    /\ ppc' = "returned"
    /\ again' = (ppc = "returned")
    /\ UNCHANGED <<job, deadline, slice, last_response, slept>>
    /\ UNCHANGED <<genVars, extractVars, submitVars, truncVars, promptVars, diffVars, writerVars, feedbackVars>>

PollInit ==
    /\ job \in JobStatuses \cup {"unknown"}
    /\ tool = "none"
    /\ ppc = "ready"
    /\ now = 0
    /\ deadline = 0
    /\ slice = 0
    /\ last_response = NoSnap
    /\ slept = FALSE
    /\ ret = NoSnap
    /\ last_answer = NoAnswer
    /\ again = FALSE
    /\ seen_terminal = FALSE
    /\ step_requested = 0
    /\ slice_queried = FALSE

PollNext ==
    \/ job_advance
    \/ check_status_begin
    \/ \E lat \in Latencies : \E ans \in Answers(job) : check_status_query(ans, lat)
    \/ check_status_slice_end
    \/ \E step_seconds \in StepInputs : wait_job_step_begin(step_seconds)
    \/ \E lat \in Latencies : \E ans \in Answers(job) : wait_job_step_query(ans, lat)
    \/ wait_job_step_end
    \/ \E lat \in Latencies : \E ans \in Answers(job) : get_job_status_call(ans, lat)

InitPoll == PollInit /\ GenIdle /\ ExtractIdle /\ SubmitIdle /\ TruncIdle /\ PromptIdle
    /\ DiffIdle /\ WriterIdle /\ FeedbackIdle

SpecPoll == InitPoll /\ [][PollNext]_vars

-----------------------------------------------------------------------------
(* Properties of the poller *)

\* the snapshot carries a job object whose status is generated, passed or failed
TerminalSnap(s) ==
    s.kind = "job" /\ s.shape # "other" /\ s.status \in {"generated", "passed", "failed"}

\* C10: immediate return on a terminal status. A poller that is still in its
\* loop has seen no terminal status in its last query (so it issues no query
\* and enters no slice after one); when the last query saw one, the call
\* returned exactly that snapshot without sleeping; and a call that returned
\* anything else (queued, running, an error) used up all of its slices.
C10_ImmediateReturn ==
    /\ ppc = "loop" => ~TerminalSnap(last_response)
    /\ (ppc = "returned" /\ TerminalSnap(last_response)) =>
          ret = last_response /\ ~slept
    /\ (ppc = "returned" /\ ~TerminalSnap(last_response)) =>
          /\ now >= deadline
          /\ tool = "check_status" => slice = Len(chunks)

\* check_status returns a terminal snapshot in its first slice, after some
\* queries that saw no terminal status, with time and slices left
C10_Witness ==
    /\ ppc = "returned" /\ tool = "check_status"
    /\ TerminalSnap(ret)
    /\ slice = 1 /\ now >= 2 /\ now < deadline

\* the budget of one check_status call
TotalBudget == chunks[1] + chunks[2] + chunks[3]

\* C11: bounded overshoot. A poll call that started at time 0 has ended no
\* later than its total budget (the sum of the slices of check_status, the
\* clamped step of wait_job_step) plus one query interval.
C11_BoundedOvershoot ==
    ppc \in {"returned", "raised"} =>
        /\ tool = "check_status" => now <= TotalBudget + SleepSeconds
        /\ tool = "wait_job_step" => now <= deadline + SleepSeconds

\* C12: budget exhaustion. When check_status returns after its last slice
\* (its last query was followed by the sleep), the value returned is the
\* snapshot of the last GET it made, and that snapshot is not terminal.
C12_ExhaustionResult ==
    (ppc = "returned" /\ tool = "check_status" /\ slept) =>
        /\ slice = Len(chunks) /\ now >= deadline
        /\ last_answer # NoAnswer
        /\ ret.kind = (IF last_answer.kind = "transport" THEN "error" ELSE "job")
        /\ ret.ok = (last_answer.kind = "http" /\ last_answer.code < 400)
        /\ ret.http = last_answer.code
        /\ ret.status = last_answer.status
        /\ ret = last_response
        /\ ~TerminalSnap(ret)

\* the three slices elapsed on a job that was still running at the last query
C12_Witness ==
    /\ ppc = "returned" /\ tool = "check_status" /\ slept
    /\ slice = Len(chunks)
    /\ ret.kind = "job" /\ ret.status = "running"

\* C13: transport failures. When the last GET failed in transport, the
\* snapshot recorded for it is the non-ok error snapshot, nothing was raised,
\* it did not count as a terminal status (the poller slept and went on), and
\* the call has returned only if its budget was used up.
C13_TransportFailure ==
    last_answer.kind = "transport" =>
        /\ ppc # "raised"
        /\ tool = "get_job_status" => ret.kind = "error" /\ ~ret.ok
        /\ tool \in {"check_status", "wait_job_step"} =>
              /\ last_response.kind = "error" /\ ~last_response.ok
              /\ ~TerminalSnap(last_response)
              /\ slept
              /\ ppc = "returned" =>
                    /\ ret = last_response
                    /\ now >= deadline
                    /\ tool = "check_status" => slice = Len(chunks)

\* after a transport error in the first slice check_status polls on in the second
C13_Witness ==
    /\ last_answer.kind = "transport"
    /\ tool = "check_status" /\ ppc = "loop"
    /\ slice = 2 /\ now < deadline

\* C14: polling never throws. No poll operation ends in an exception,
\* whatever the GET ended in.
C14_NeverThrows == ppc # "raised"

\* C15: the poller is read-only. A step in which the poller moves (a begin, a
\* query with any outcome, the end of a slice, a return) leaves the job of the
\* Job Store as it was; the job changes only in steps of its own worker.
C15_ReadOnly ==
    [][(job' # job) =>
          UNCHANGED <<tool, ppc, now, deadline, slice, last_response, slept, ret,
                      last_answer, again, seen_terminal, step_requested,
                      slice_queried>>]_vars

\* a poll that ended on a transport error, with the job still running
C15_Witness ==
    /\ ppc = "returned" /\ tool = "wait_job_step"
    /\ last_answer.kind = "transport"
    /\ job = "running"

-----------------------------------------------------------------------------
(* Cooperative long-polling: the caller invokes check_status again after    *)
(* every return that carried no terminal status.                            *)

\* the next invocation: its clock is counted from its own start, and it has
\* made no GET and returned nothing yet
check_status_again ==
    /\ ppc = "returned" /\ tool = "check_status"
    /\ ~(ret.kind = "job" /\ ret.shape # "other"
           /\ ret.status \in {"generated", "passed", "failed"})
    /\ now' = 0
    /\ slice' = 1
    /\ deadline' = chunks[1]
    /\ last_response' = NoSnap
    /\ slept' = FALSE
    /\ ppc' = "loop"
    /\ again' = TRUE
    /\ ret' = NoSnap
    /\ last_answer' = NoAnswer
    /\ UNCHANGED <<job, tool, seen_terminal, step_requested>>
    /\ slice_queried' = FALSE
    /\ UNCHANGED <<genVars, extractVars, submitVars, truncVars, promptVars, diffVars, writerVars, feedbackVars>>

\* a GET is answered at once, after a second, or ends at its timeout
LiveLatencies == {0, 1, GetTimeout}

\* a GET that reaches the Job Store and is answered with the job it holds
GoodQuery ==
    \E lat \in LiveLatencies : check_status_query(HttpAnswer(200, "json_dict", job), lat)

\* the steps of the poller and of its caller
PollerStep ==
    \/ check_status_begin
    \/ \E lat \in LiveLatencies : \E ans \in Answers(job) : check_status_query(ans, lat)
    \/ check_status_slice_end
    \/ check_status_again

LiveNext ==
    \/ job_advance
    \/ check_status_begin
    \/ \E lat \in LiveLatencies : \E ans \in Answers(job) : check_status_query(ans, lat)
    \/ check_status_slice_end
    \/ check_status_again

\* The poller and its caller keep running (every GET ends within its timeout,
\* every sleep ends), and status queries eventually succeed: a GET that is
\* tried again and again is answered by the Job Store again and again.
SpecLive ==
    /\ InitPoll
    /\ [][LiveNext]_vars
    /\ WF_vars(PollerStep)
    /\ SF_vars(GoodQuery)

\* C16: cooperative long-polling. If the job reaches a terminal status and
\* keeps it, the caller that invokes check_status again after every
\* non-terminal return eventually gets a snapshot with a terminal status; and
\* every invocation that is in its loop returns.
C16_LongPolling ==
    /\ (<>[](job \in {"generated", "passed", "failed"}))
          => <>(ppc = "returned" /\ TerminalSnap(ret))
    /\ (ppc = "loop") ~> (ppc = "returned")

\* a terminal snapshot returned by a later invocation
C16_Witness ==
    /\ again
    /\ ppc = "returned" /\ tool = "check_status"
    /\ TerminalSnap(ret)

-----------------------------------------------------------------------------
(* Job status as the queries show it *)

\* the statuses that come later than st along
\* queued -> running -> {generated -> passed | failed}
LaterStatuses(st) ==
    CASE st = "queued" -> {"running", "generated", "passed", "failed"}
      [] st = "running" -> {"generated", "passed", "failed"}
      [] st = "generated" -> {"passed", "failed"}
      [] OTHER -> {}

\* C17: job status is monotonic. A job only moves to a later status along
\* queued -> running -> {generated -> passed | failed}, and once a status
\* query was answered with generated, passed or failed, no query for that id
\* is answered with queued or running.
C17_MonotonicStatus ==
    /\ [][job' # job => job' \in LaterStatuses(job)]_vars
    /\ [](seen_terminal => last_answer.status \notin {"queued", "running"})

\* generated was returned by one query and passed by a later one
C17_Witness ==
    /\ seen_terminal /\ again
    /\ tool = "get_job_status" /\ ppc = "returned"
    /\ last_answer = HttpAnswer(200, "json_dict", "passed")
    /\ job = "passed"

-----------------------------------------------------------------------------
(* Submission: test_modification *)

MaxEntries == 2
MaxRelated == 1

\* truthiness of any Python value: None and "" are falsy, a non-str such as 5 is truthy
IsTrue(v) == v.kind = "nonstr" \/ (v.kind = "str" /\ v.text # <<>>)

\* a or b
Or(a, b) == IF IsTrue(a) THEN a ELSE b

\* entry.get(key): None when the key is missing
Get(v) == IF v.kind = "absent" THEN None ELSE v

\* one element of modified_files; a key that is missing holds Absent
Entry(path, target_file, file, filepath, diff, patch, delta) ==
    [dict |-> TRUE, path |-> path, target_file |-> target_file, file |-> file,
     filepath |-> filepath, diff |-> diff, patch |-> patch, delta |-> delta]

\* an element that is no dict
NonDictEntry ==
    [dict |-> FALSE, path |-> Absent, target_file |-> Absent, file |-> Absent,
     filepath |-> Absent, diff |-> Absent, patch |-> Absent, delta |-> Absent]

\* paths are sequences of characters
RelPath == <<"a">>
AbsPath == <<"/", "a">>
WinPath == <<"a", "\\", "a">>

Entries ==
    { NonDictEntry,
      Entry(Str(RelPath), Absent, Absent, Absent, Str(<<"d">>), Absent, Absent),
      Entry(Str(<<>>), Str(WinPath), Absent, Absent, Absent, Str(<<"p">>), Absent),
      Entry(Absent, Absent, NonStr, Str(RelPath), Absent, Absent, Absent),
      Entry(Absent, Absent, Absent, Str(<<>>), None, Absent, Absent),
      Entry(Absent, Absent, Absent, Absent, Str(<<"d">>), Absent, Absent),
      Entry(Str(AbsPath), Absent, Absent, Absent, Str(<<>>), Absent, Str(<<"p">>)) }

RelatedVals == {Str(RelPath), Str(AbsPath), NonStr}

\* entry.get("path") or entry.get("target_file") or entry.get("file") or entry.get("filepath")
path_val(entry) ==
    Or(Or(Or(Get(entry.path), Get(entry.target_file)), Get(entry.file)), Get(entry.filepath))

\* entry.get("diff") or entry.get("patch") or entry.get("delta") or ""
diff_val(entry) ==
    Or(Or(Or(Get(entry.diff), Get(entry.patch)), Get(entry.delta)), Str(<<>>))

\* path_val.replace("\\", "/")
Replace(p) == [k \in 1..Len(p) |-> IF p[k] = "\\" THEN "/" ELSE p[k]]

\* the loop of lines 234-240
RECURSIVE normalized_modified(_)
normalized_modified(entries) ==
    IF entries = <<>> THEN <<>>
    ELSE LET entry == Head(entries)
             rest == normalized_modified(Tail(entries))
         IN IF entry.dict /\ path_val(entry).kind = "str"
            THEN <<[path |-> Replace(path_val(entry).text), diff |-> diff_val(entry)]>> \o rest
            ELSE rest

\* [p for p in related_files if isinstance(p, str)]
RECURSIVE normalized_related(_)
normalized_related(files) ==
    IF files = <<>> THEN <<>>
    ELSE IF Head(files).kind = "str"
         THEN <<Head(files).text>> \o normalized_related(Tail(files))
         ELSE normalized_related(Tail(files))

\* find_git_root(Path.cwd()) or Path.cwd()
repo_root == <<"/", "r">>

\* Path(p) drops repeated and trailing separators
RECURSIVE Squeeze(_)
Squeeze(p) ==
    IF p = <<>> THEN <<>>
    ELSE IF Head(p) = "/" /\ (Len(p) = 1 \/ p[2] = "/") THEN Squeeze(Tail(p))
    ELSE <<Head(p)>> \o Squeeze(Tail(p))

is_absolute(p) == p # <<>> /\ Head(p) = "/"

\* str((p if p.is_absolute() else (repo_root / p)).resolve())
resolve(p) ==
    IF is_absolute(p) THEN (IF Squeeze(p) = <<>> THEN <<"/">> ELSE Squeeze(p))
    ELSE IF Squeeze(p) = <<>> THEN repo_root
    ELSE repo_root \o <<"/">> \o Squeeze(p)

abs_modified(items) ==
    [k \in 1..Len(items) |-> [path |-> resolve(items[k].path), diff |-> items[k].diff]]

abs_related(files) == [k \in 1..Len(files) |-> resolve(files[k])]

\* what the POST can end in: a transport error or an HTTP response whose body
\* is a JSON object with or without a jobId, no JSON, or JSON that is no object
PostOutcomes ==
    {TransportError}
      \cup {HttpAnswer(code, body, "") :
               code \in {200, 400, 500},
               body \in {"json_jobid", "json_dict", "non_json", "json_other"}}

JobId == Str(<<"j">>)

ErrorResult(msg) == [ok |-> FALSE, status |-> 0, jobId |-> None, error |-> msg, server |-> "none"]

\* lines 229-261: the argument check and the payload
test_modification_begin ==
    /\ spc = "called"
    /\ IF user_message.kind # "str"
       THEN /\ sub_ret' = ErrorResult("user_message must be a string")
            /\ spc' = "returned"
            /\ UNCHANGED payload
       ELSE /\ payload' = [userMessage |-> user_message.text,
                           modifiedFiles |-> abs_modified(normalized_modified(modified_files)),
                           relatedFiles |-> abs_related(normalized_related(related_files)),
                           async |-> TRUE]
            /\ spc' = "posting"
            /\ UNCHANGED sub_ret
    /\ UNCHANGED <<user_message, modified_files, related_files>>
    /\ UNCHANGED <<genVars, extractVars, pollVars, truncVars, promptVars, diffVars, writerVars, feedbackVars>>

\* lines 263-279: the POST and the result. data.get raises on a body that is
\* no object, and the outer except turns that into an error result.
test_modification_post(outcome) ==
    /\ spc = "posting"
    /\ sub_ret' =
         IF outcome.kind = "transport" \/ outcome.body = "json_other"
         THEN ErrorResult("failed to start job")
         ELSE [ok |-> outcome.code < 400, status |-> outcome.code,
               jobId |-> (IF outcome.body = "json_jobid" THEN JobId ELSE None),
               error |-> "", server |-> outcome.body]
    /\ spc' = "returned"
    /\ UNCHANGED <<user_message, modified_files, related_files, payload>>
    /\ UNCHANGED <<genVars, extractVars, pollVars, truncVars, promptVars, diffVars, writerVars, feedbackVars>>

SubmitInit ==
    /\ user_message \in {Str(<<"m">>), NonStr}
    /\ modified_files \in SeqsUpTo(Entries, MaxEntries)
    /\ related_files \in SeqsUpTo(RelatedVals, MaxRelated)
    /\ payload = NoPayload
    /\ spc = "called"
    /\ sub_ret = NoResult

SubmitNext ==
    \/ test_modification_begin
    \/ \E outcome \in PostOutcomes : test_modification_post(outcome)

InitSubmit == SubmitInit /\ GenIdle /\ ExtractIdle /\ PollIdle /\ TruncIdle /\ PromptIdle
    /\ DiffIdle /\ WriterIdle /\ FeedbackIdle

SpecSubmit == InitSubmit /\ [][SubmitNext]_vars

\* C18: submission outcome. Whatever the input and whatever the POST ends in,
\* the result test_modification returns carries a job id or has ok = false; it
\* never has ok = true with a null jobId.
C18_SubmissionOutcome ==
    spc = "returned" =>
        /\ sub_ret.jobId # None \/ ~sub_ret.ok
        /\ ~(sub_ret.ok /\ sub_ret.jobId = None)

-----------------------------------------------------------------------------
(* Timeouts of the outbound calls *)

\* C19: every outbound network call carries an explicit timeout: the
\* submission request at most 10 s, each status query at most 8 s, and every
\* Proposal Oracle invocation of the generation loop.
C19_ExplicitTimeouts ==
    /\ PostTimeout <= 10
    /\ GetTimeout <= 8
    /\ \A k \in 1..Len(attempts) : attempts[k].timeout # "none"

-----------------------------------------------------------------------------
(* Truncation: _truncate *)

MaxTextLen == 3
MaxLimit == 3

\* texts are sequences of characters
TruncTexts == SeqsUpTo({"a", "b"}, MaxTextLen)

\* a limit below 1 is an int as well
Limits == -1..MaxLimit

\* "\n... <truncated> ...\n"
Marker ==
    <<"\n", ".", ".", ".", " ", "<", "t", "r", "u", "n", "c", "a", "t", "e", "d", ">",
      " ", ".", ".", ".", "\n">>

\* text[:k]
SliceTo(text, k) ==
    IF k >= 0 THEN SubSeq(text, 1, Min(k, Len(text)))
    ELSE SubSeq(text, 1, Max(Len(text) + k, 0))

\* text[j:]
SliceFrom(text, j) ==
    IF j >= 0 THEN SubSeq(text, Min(j, Len(text)) + 1, Len(text))
    ELSE SubSeq(text, Max(Len(text) + j, 0) + 1, Len(text))

\* limit // 2 and -limit // 2 round towards minus infinity
FloorHalf(n) == IF n >= 0 THEN n \div 2 ELSE -((1 - n) \div 2)

_truncate(text, limit) ==
    IF Len(text) <= limit THEN text
    ELSE SliceTo(text, FloorHalf(limit)) \o Marker \o SliceFrom(text, FloorHalf(-limit))

TruncInit ==
    /\ trunc_text \in TruncTexts
    /\ trunc_limit \in Limits
    /\ trunc_once = <<>>
    /\ trunc_twice = <<>>
    /\ tpc = "input"

truncate_once ==
    /\ tpc = "input"
    /\ trunc_once' = _truncate(trunc_text, trunc_limit)
    /\ tpc' = "once"
    /\ UNCHANGED <<trunc_text, trunc_limit, trunc_twice>>
    /\ UNCHANGED <<genVars, extractVars, pollVars, submitVars, promptVars, diffVars, writerVars, feedbackVars>>

truncate_twice ==
    /\ tpc = "once"
    /\ trunc_twice' = _truncate(trunc_once, trunc_limit)
    /\ tpc' = "twice"
    /\ UNCHANGED <<trunc_text, trunc_limit, trunc_once>>
    /\ UNCHANGED <<genVars, extractVars, pollVars, submitVars, promptVars, diffVars, writerVars, feedbackVars>>

TruncNext ==
    \/ truncate_once
    \/ truncate_twice

InitTrunc == TruncInit /\ GenIdle /\ ExtractIdle /\ PollIdle /\ SubmitIdle /\ PromptIdle
    /\ DiffIdle /\ WriterIdle /\ FeedbackIdle

SpecTrunc == InitTrunc /\ [][TruncNext]_vars

-----------------------------------------------------------------------------
(* Prompt assembly: main's input parsing, the related-file reads of          *)
(* generate_one_with_gpt, and build_prompt                                   *)

MaxModified == 2
MaxRelatedFiles == 2

\* _truncate's default limit
DefaultLimit == 8000

ShortText == <<"a", "b">>
\* a text one character longer than the default limit
LongText == [k \in 1..DefaultLimit + 1 |-> "a"]

\* modifiedFiles elements: with a diff, with a long diff, without a diff, without a path
ModifiedVals ==
    { [path |-> "c1", diff |-> Str(ShortText)],
      [path |-> "c2", diff |-> Str(LongText)],
      [path |-> "c3", diff |-> None],
      [path |-> "", diff |-> Str(ShortText)] }

\* related files: readable, unreadable (read_text raises), readable and long
RelatedFileVals ==
    { [path |-> "r1", readable |-> TRUE, body |-> ShortText],
      [path |-> "r2", readable |-> FALSE, body |-> <<>>],
      [path |-> "r3", readable |-> TRUE, body |-> LongText] }

\* d[k] = v on a dict kept in insertion order
DictPut(d, k, v) ==
    IF \E n \in 1..Len(d) : d[n].key = k
    THEN [n \in 1..Len(d) |-> IF d[n].key = k THEN [key |-> k, val |-> v] ELSE d[n]]
    ELSE Append(d, [key |-> k, val |-> v])

\* changed_files = [m.get("path") for m in modifiedFiles if m.get("path")]
RECURSIVE changed_files(_)
changed_files(ms) ==
    IF ms = <<>> THEN <<>>
    ELSE IF Head(ms).path # "" THEN <<Head(ms).path>> \o changed_files(Tail(ms))
    ELSE changed_files(Tail(ms))

\* extra_context_changed_diffs, filled by the loop of lines 214-218
RECURSIVE changed_diffs_from(_, _)
changed_diffs_from(ms, d) ==
    IF ms = <<>> THEN d
    ELSE IF Head(ms).path # "" /\ Head(ms).diff.kind = "str"
         THEN changed_diffs_from(Tail(ms), DictPut(d, Head(ms).path, Head(ms).diff.text))
         ELSE changed_diffs_from(Tail(ms), d)

\* the loop of lines 123-129: a file whose read raises is skipped
RECURSIVE read_related(_, _)
read_related(files, d) ==
    IF files = <<>> THEN d
    ELSE IF Head(files).readable
         THEN read_related(Tail(files), DictPut(d, Head(files).path, Head(files).body))
         ELSE read_related(Tail(files), d)

\* the paths of the related_files argument
paths_of(files) == [n \in 1..Len(files) |-> files[n].path]

\* one part of the prompt: a fixed text, a list of paths, or a path with a text under it
Part(kind, paths, path, text) == [kind |-> kind, paths |-> paths, path |-> path, text |-> text]
Fixed(kind) == Part(kind, <<>>, "", <<>>)

\* the "# DIFF: p" / "# FILE: p" parts of a dict
Embedded(kind, d) == [n \in 1..Len(d) |-> Part(kind, <<>>, d[n].key, _truncate(d[n].val, DefaultLimit))]

build_prompt(changed, related, changed_diffs, related_file_bodies) ==
    <<Fixed("instructions"), Fixed("user_message"), Part("changed_list", changed, "", <<>>)>>
      \o (IF changed_diffs # <<>>
          THEN <<Fixed("diffs_title")>> \o Embedded("diff", changed_diffs) ELSE <<>>)
      \o <<Part("related_list", related, "", <<>>)>>
      \o (IF related_file_bodies # <<>>
          THEN <<Fixed("bodies_title")>> \o Embedded("file", related_file_bodies) ELSE <<>>)
      \o <<Fixed("examples"), Fixed("rules")>>

PromptInit ==
    /\ bp_modified_files \in SeqsUpTo(ModifiedVals, MaxModified)
    /\ bp_related_files \in SeqsUpTo(RelatedFileVals, MaxRelatedFiles)
    /\ related_bodies = <<>>
    /\ prompt = <<>>
    /\ bpc = "input"

\* generate_one_with_gpt, lines 122-129
read_related_files ==
    /\ bpc = "input"
    /\ related_bodies' = read_related(bp_related_files, <<>>)
    /\ bpc' = "read"
    /\ UNCHANGED <<bp_modified_files, bp_related_files, prompt>>
    /\ UNCHANGED <<genVars, extractVars, pollVars, submitVars, truncVars, diffVars, writerVars, feedbackVars>>

\* generate_one_with_gpt, lines 131-137
build_prompt_call ==
    /\ bpc = "read"
    /\ prompt' = build_prompt(changed_files(bp_modified_files), paths_of(bp_related_files),
                              changed_diffs_from(bp_modified_files, <<>>), related_bodies)
    /\ bpc' = "built"
    /\ UNCHANGED <<bp_modified_files, bp_related_files, related_bodies>>
    /\ UNCHANGED <<genVars, extractVars, pollVars, submitVars, truncVars, diffVars, writerVars, feedbackVars>>

\* the first client.responses.create(input=prompt, ...)
oracle_call ==
    /\ bpc = "built"
    /\ bpc' = "called"
    /\ UNCHANGED <<bp_modified_files, bp_related_files, related_bodies, prompt>>
    /\ UNCHANGED <<genVars, extractVars, pollVars, submitVars, truncVars, diffVars, writerVars, feedbackVars>>

PromptNext ==
    \/ read_related_files
    \/ build_prompt_call
    \/ oracle_call

InitPrompt ==
    PromptInit /\ GenIdle /\ ExtractIdle /\ PollIdle /\ SubmitIdle /\ TruncIdle
    /\ DiffIdle /\ WriterIdle /\ FeedbackIdle

SpecPrompt == InitPrompt /\ [][PromptNext]_vars

\* C22: truncation bound. Every diff and every related-file body embedded in
\* the prompt has at most DefaultLimit (8000) characters.
C22_TruncationBound ==
    \A n \in 1..Len(prompt) :
        prompt[n].kind \in {"diff", "file"} => Len(prompt[n].text) <= DefaultLimit

\* the paths a part of the prompt shows
Mentions(part) == {part.paths[n] : n \in 1..Len(part.paths)} \cup {part.path}

\* C23: unreadable related files. A related file whose read fails is left out
\* of the prompt, body and path; every readable related file appears with its
\* body; and the oracle is still called (nothing is raised).
C23_UnreadableOmitted ==
    bpc \in {"built", "called"} =>
        \A k \in 1..Len(bp_related_files) :
            LET f == bp_related_files[k]
            IN IF f.readable
               THEN \E n \in 1..Len(prompt) :
                       /\ prompt[n].kind = "file" /\ prompt[n].path = f.path
                       /\ prompt[n].text = _truncate(f.body, DefaultLimit)
               ELSE \A n \in 1..Len(prompt) : f.path \notin Mentions(prompt[n])

-----------------------------------------------------------------------------
(* New-file diff: unified_diff_for_new_file *)

MaxContentLen == 4

\* file texts are sequences of characters; "\n" ends a line
Contents == SeqsUpTo({"x", "y", "\n"}, MaxContentLen)

\* the untracked file: its text, or a file whose read_text raises
NewFiles ==
    {[readable |-> FALSE, text |-> <<>>]} \cup {[readable |-> TRUE, text |-> c] : c \in Contents}

\* content.splitlines(keepends=True), cur being the line read so far
RECURSIVE SplitLinesFrom(_, _)
SplitLinesFrom(content, cur) ==
    IF content = <<>> THEN (IF cur = <<>> THEN <<>> ELSE <<cur>>)
    ELSE IF Head(content) = "\n"
         THEN <<Append(cur, "\n")>> \o SplitLinesFrom(Tail(content), <<>>)
         ELSE SplitLinesFrom(Tail(content), Append(cur, Head(content)))

splitlines(content) == SplitLinesFrom(content, <<>>)

\* the three header lines, each with its "\n"; one token stands for the text of a line
DiffHeader == <<"diff --git a/rel b/rel", "\n", "new file mode 100644", "\n",
                "index 0000000..0000000", "\n">>

\* difflib.unified_diff([], new_lines, fromfile="/dev/null", tofile="b/rel", lineterm=""):
\* nothing for no lines; else the two file lines, the hunk line, and '+' + line
\* for every line, which keeps the line's own terminator
unified_diff(new_lines) ==
    IF new_lines = <<>> THEN <<>>
    ELSE << <<"--- /dev/null">>, <<"+++ b/rel">>, <<"@@ -0,0 +1,n @@">> >>
           \o [k \in 1..Len(new_lines) |-> <<"+">> \o new_lines[k]]

\* sep.join(strs)
RECURSIVE Joined(_, _)
Joined(strs, sep) ==
    IF strs = <<>> THEN <<>>
    ELSE IF Len(strs) = 1 THEN Head(strs)
    ELSE Head(strs) \o sep \o Joined(Tail(strs), sep)

unified_diff_for_new_file(file) ==
    LET content == IF file.readable THEN file.text ELSE <<>>
        new_lines == splitlines(content)
    IN DiffHeader \o Joined(unified_diff(new_lines), <<"\n">>)
         \o (IF new_lines # <<>> THEN <<"\n">> ELSE <<>>)

DiffInit ==
    /\ nf_content \in NewFiles
    /\ nf_patch = <<>>
    /\ dpc = "input"

unified_diff_for_new_file_call ==
    /\ dpc = "input"
    /\ nf_patch' = unified_diff_for_new_file(nf_content)
    /\ dpc' = "returned"
    /\ UNCHANGED nf_content
    /\ UNCHANGED <<genVars, extractVars, pollVars, submitVars, truncVars, promptVars,
                   writerVars, feedbackVars>>

DiffNext == unified_diff_for_new_file_call

InitDiff ==
    DiffInit /\ GenIdle /\ ExtractIdle /\ PollIdle /\ SubmitIdle /\ TruncIdle
    /\ PromptIdle /\ WriterIdle /\ FeedbackIdle

SpecDiff == InitDiff /\ [][DiffNext]_vars

\* a line without its terminator
Chomp(line) ==
    IF line # <<>> /\ line[Len(line)] = "\n" THEN SubSeq(line, 1, Len(line) - 1) ELSE line

\* the added lines of a patch, one "+line\n" per line of the file and nothing else
RECURSIVE AddedLines(_)
AddedLines(lines) ==
    IF lines = <<>> THEN <<>>
    ELSE <<"+">> \o Chomp(Head(lines)) \o <<"\n">> \o AddedLines(Tail(lines))

\* C24: new-file diff. For a file of n >= 1 lines the patch is the
\* `new file mode` header, the file and hunk lines, and exactly n added lines,
\* the i-th being '+' and the i-th line of the file, with no blank or other
\* line between or after them; for an empty file it is the header only.
C24_NewFileDiff ==
    (dpc = "returned" /\ nf_content.readable) =>
        LET lines == splitlines(nf_content.text)
        IN IF lines = <<>> THEN nf_patch = DiffHeader
           ELSE nf_patch = DiffHeader
                             \o <<"--- /dev/null", "\n", "+++ b/rel", "\n", "@@ -0,0 +1,n @@", "\n">>
                             \o AddedLines(lines)

-----------------------------------------------------------------------------
(* Submission normalization *)

\* the first non-empty value of a list of values, None if there is none
RECURSIVE FirstNonEmpty(_)
FirstNonEmpty(vals) ==
    IF vals = <<>> THEN None
    ELSE IF IsTrue(Get(Head(vals))) THEN Get(Head(vals))
    ELSE FirstNonEmpty(Tail(vals))

PathOf(entry) == FirstNonEmpty(<<entry.path, entry.target_file, entry.file, entry.filepath>>)
DiffOf(entry) == FirstNonEmpty(<<entry.diff, entry.patch, entry.delta>>)

\* the items the entries contribute: one for every mapping with a string path
RECURSIVE Contributed(_)
Contributed(entries) ==
    IF entries = <<>> THEN <<>>
    ELSE LET entry == Head(entries) IN
         IF entry.dict /\ PathOf(entry).kind = "str"
         THEN <<[path |-> resolve(Replace(PathOf(entry).text)),
                 diff |-> IF IsTrue(DiffOf(entry)) THEN DiffOf(entry) ELSE Str(<<>>)]>>
                \o Contributed(Tail(entries))
         ELSE Contributed(Tail(entries))

\* C25: submission normalization. Every entry that is a mapping with a string
\* path (the first non-empty of path, target_file, file, filepath) contributes
\* one {path, diff} item, in input order, its diff the first non-empty of diff,
\* patch, delta, else empty; every other entry is dropped, and the submission
\* does not fail on it.
C25_Normalization ==
    /\ spc # "raised"
    /\ (spc \in {"posting", "returned"} /\ user_message.kind = "str") =>
           payload.modifiedFiles = Contributed(modified_files)

-----------------------------------------------------------------------------
(* Writers: the mock path of generate_with_gpt5.run and                      *)
(* generate_maestro_yaml.main                                                *)

MaxExamples == 2

\* step lists a body can hold; whether a body is accepted depends on the
\* grammar file the program is given
ExampleBodies ==
    { <<"T">>, <<"M", "K", "X">>, <<"T", "M", "K">>, <<"M">>, <<"M", "X">>, <<"B">> }

\* header = 'appId: "..."\n---\n'; return header + body
with_header(body) == <<"H", "S">> \o body

\* build_mock_yaml(task): header + body
build_mock_yaml(body) == <<"H", "S">> \o body

\* parser.parse(yaml_text) returns normally (TRUE) or raises (FALSE)
parse_or_raise(yaml_text) == GrammarAccepts(yaml_text)

WriterInit ==
    /\ wprog \in {"mock", "examples"}
    /\ docs \in (IF wprog = "mock"
                 THEN {<<build_mock_yaml(b)>> : b \in ExampleBodies}
                 ELSE {[k \in 1..Len(bs) |-> with_header(bs[k])] :
                          bs \in SeqsUpTo(ExampleBodies, MaxExamples)})
    /\ widx = 1
    /\ written = <<>>
    /\ wpc = "run"

\* run, lines 147-153: validate, then write, then return 0
run_mock ==
    /\ wpc = "run" /\ wprog = "mock"
    /\ IF validate_with_lark(docs[1])
       THEN /\ written' = <<docs[1]>>
            /\ wpc' = "done"
       ELSE /\ wpc' = "raised"
            /\ UNCHANGED written
    /\ UNCHANGED <<wprog, docs, widx>>
    /\ UNCHANGED <<genVars, extractVars, pollVars, submitVars, truncVars, promptVars,
                   diffVars, feedbackVars>>

\* mutant: the example is written before it is parsed
main_write_example_first ==
    /\ wpc = "run" /\ wprog = "examples"
    /\ widx <= Len(docs)
    /\ written' = Append(written, docs[widx])
    /\ IF parse_or_raise(docs[widx])
       THEN /\ widx' = widx + 1
            /\ UNCHANGED wpc
       ELSE /\ wpc' = "raised"
            /\ UNCHANGED widx
    /\ UNCHANGED <<wprog, docs>>
    /\ UNCHANGED <<genVars, extractVars, pollVars, submitVars, truncVars, promptVars,
                   diffVars, feedbackVars>>

\* generate_maestro_yaml.main, lines 123-129: one turn of the loop over the examples
main_write_example ==
    /\ wpc = "run" /\ wprog = "examples"
    /\ widx <= Len(docs)
    /\ IF parse_or_raise(docs[widx])
       THEN /\ written' = Append(written, docs[widx])
            /\ widx' = widx + 1
            /\ UNCHANGED wpc
       ELSE /\ wpc' = "raised"
            /\ UNCHANGED <<written, widx>>
    /\ UNCHANGED <<wprog, docs>>
    /\ UNCHANGED <<genVars, extractVars, pollVars, submitVars, truncVars, promptVars,
                   diffVars, feedbackVars>>

\* lines 131-133: the loop is over, the written paths are printed
main_done ==
    /\ wpc = "run" /\ wprog = "examples"
    /\ widx > Len(docs)
    /\ wpc' = "done"
    /\ UNCHANGED <<wprog, docs, widx, written>>
    /\ UNCHANGED <<genVars, extractVars, pollVars, submitVars, truncVars, promptVars,
                   diffVars, feedbackVars>>

\* one of the programs runs: the generators, or one of the writers
InitWrite ==
    /\ ExtractIdle /\ PollIdle /\ SubmitIdle /\ TruncIdle /\ PromptIdle /\ DiffIdle
    /\ FeedbackIdle
    /\ \/ GenInit /\ WriterIdle
       \/ GenIdle /\ WriterInit

WriteNext ==
    \/ main_next_candidate
    \/ main_emit
    \/ \E resp \in OracleResponses : generate_one_attempt(resp)
    \/ run_begin
    \/ \E resp \in OracleResponses : run_attempt(resp)
    \/ run_mock
    \/ main_write_example
    \/ main_done

SpecWrite == InitWrite /\ [][WriteNext]_vars
-----------------------------------------------------------------------------
(* Properties of the Grammar Oracle as the generators and writers use it *)

\* the document starts with the quoted appId header and the separator line
HasHeaderAndSeparator(t) == Len(t) >= 2 /\ t[1] = "H" /\ t[2] = "S"

\* every text a program has returned, printed or written
Delivered ==
    {tests[k] : k \in 1..Len(tests)}
      \cup {stdout.tests[k] : k \in 1..Len(stdout.tests)}
      \cup (IF outfile.kind = "str" THEN {outfile.text} ELSE {})
      \cup {written[k] : k \in 1..Len(written)}

\* C26: header and separator are mandatory. The Grammar Oracle rejects every
\* candidate that lacks the header or the separator, and no such document is
\* returned by the generator, printed, or written by a writer.
C26_HeaderMandatory ==
    /\ \A k \in 1..Len(attempts) :
          (Truthy(attempts[k].candidate) /\ ~HasHeaderAndSeparator(attempts[k].candidate.text))
              => attempts[k].verdict = "rejected"
    /\ \A t \in Delivered : HasHeaderAndSeparator(t)

\* a candidate without the separator was rejected, and a later one was returned
C26_Witness ==
    /\ Len(attempts) = 2
    /\ attempts[1].candidate = Str(NoSepText) /\ attempts[1].verdict = "rejected"
    /\ attempts[2].verdict = "ok"
    /\ tests # <<>>

\* a mapping keyword that is not followed by its required key line
HasBareMapping(t) ==
    \E j \in 1..Len(t) : t[j] = "M" /\ (j = Len(t) \/ t[j + 1] # "K")

\* a step whose value is outside the allowed set
HasBadValue(t) == \E j \in 1..Len(t) : t[j] = "B"

\* the documents the writer has got to: written, or the one that was refused
Reached == 1..(IF wpc = "raised" THEN Len(written) + 1 ELSE Len(written))

\* C27: mapping-form commands need their required key. A document with a
\* mapping step that lacks its required key line (bare, or with extras only),
\* or with a step value outside the allowed set, is rejected: it is refused by
\* the writer and never delivered; a document whose mapping step has its key
\* and extras is accepted.
C27_MappingNeedsKey ==
    /\ \A t \in Delivered : ~HasBareMapping(t) /\ ~HasBadValue(t)
    /\ \A k \in 1..Len(attempts) :
          (Truthy(attempts[k].candidate) /\ HasBareMapping(attempts[k].candidate.text))
              => attempts[k].verdict = "rejected"
    /\ \A k \in Reached :
          /\ (HasBareMapping(docs[k]) \/ HasBadValue(docs[k])) => (wpc = "raised" /\ k = Len(written) + 1)
          /\ docs[k] = with_header(<<"M", "K", "X">>) => (k <= Len(written) /\ written[k] = docs[k])

\* the example with key and extras was written, the next one, with extras only, refused
C27_Witness ==
    /\ wprog = "examples" /\ wpc = "raised"
    /\ docs = <<with_header(<<"M", "K", "X">>), with_header(<<"M", "X">>)>>
    /\ written = <<with_header(<<"M", "K", "X">>)>>

\* C30: validate before write. A writer writes a document only after the
\* Grammar Oracle accepted exactly that text; a document that fails validation
\* is not written, and generate_maestro_yaml.main writes no later example.
C30_ValidateBeforeWrite ==
    /\ \A k \in 1..Len(written) : written[k] = docs[k] /\ GrammarAccepts(written[k])
    /\ wpc = "raised" =>
          /\ Len(written) < Len(docs)
          /\ ~GrammarAccepts(docs[Len(written) + 1])
    /\ wpc = "done" => Len(written) = Len(docs)
    /\ outfile.kind = "str" =>
          /\ GrammarAccepts(outfile.text)
          /\ attempts # <<>>
          /\ attempts[Len(attempts)].candidate = outfile
          /\ attempts[Len(attempts)].verdict = "ok"
    /\ (gpc = "raised" /\ prog = "gpt5") => outfile = None

\* main wrote the first example and stopped at the second, which was refused
C30_Witness ==
    /\ wprog = "examples" /\ wpc = "raised"
    /\ Len(docs) = 2 /\ Len(written) = 1
    /\ ~GrammarAccepts(docs[2])
-----------------------------------------------------------------------------
(* Logging and the shape of the batch *)

\* C28: every grammar validation failure is logged. Whenever the Grammar
\* Oracle rejects a candidate, on any attempt, the failure is printed to
\* sys.stderr before the generator goes on.
C28_FailuresLogged ==
    \A k \in 1..Len(attempts) :
        attempts[k].verdict = "rejected" =>
            \E n \in 1..Len(stderr) :
                /\ stderr[n].cand = attempts[k].cand
                /\ stderr[n].attempt = attempts[k].attempt
                /\ stderr[n].generated = attempts[k].candidate

\* C29: successful batch shape. When main ends normally it has printed exactly
\* count tests, each accepted by the Grammar Oracle, in the order in which they
\* were generated (the list only grows at its end, by the candidate just
\* returned); for count = 0 it prints the empty list without any oracle call.
C29_BatchShape ==
    /\ []((gpc = "done" /\ prog = "unit") =>
            /\ stdout.printed
            /\ stdout.tests = tests
            /\ Len(stdout.tests) = count
            /\ \A k \in 1..Len(stdout.tests) : GrammarAccepts(stdout.tests[k])
            /\ count = 0 => (stdout.tests = <<>> /\ totalCalls = 0))
    /\ [][tests' # tests =>
            /\ result'.kind = "str"
            /\ tests' = Append(tests, result'.text)
            /\ Len(tests') = i']_vars

\* two different tests were generated and printed
C29_Witness ==
    /\ gpc = "done" /\ prog = "unit" /\ count = 2
    /\ stdout.tests = <<ValidText, MapText>>

\* C31: unknown job id. When the last GET was answered with an HTTP status of
\* 400 or more, the poll operation did not raise; its snapshot is a job
\* snapshot with ok = false and that HTTP status, it is no terminal status,
\* and a polling tool that returned has used up its slices and returned it.
C31_NotFoundSurfaced ==
    (last_answer.kind = "http" /\ last_answer.code >= 400) =>
        /\ ppc # "raised"
        /\ tool = "get_job_status" =>
              /\ ret.kind = "job" /\ ~ret.ok /\ ret.http = last_answer.code
              /\ ~TerminalSnap(ret)
        /\ tool \in {"check_status", "wait_job_step"} =>
              /\ last_response.kind = "job" /\ ~last_response.ok
              /\ last_response.http = last_answer.code
              /\ ~TerminalSnap(last_response)
              /\ ppc = "returned" =>
                    /\ ret = last_response
                    /\ now >= deadline
                    /\ tool = "check_status" => slice = Len(chunks)

\* C32: step clamp. Whatever integer step_seconds wait_job_step is called
\* with (zero, negative and larger than 8 included), its one slice is 1 to 8
\* seconds long: the requested length where that lies in 1..8, else the
\* nearer end of the range; and no query starts 8 seconds or more after the
\* call began.
C32_StepClamp ==
    /\ [](tool = "wait_job_step" =>
            /\ deadline \in 1..8
            /\ slice = 1
            /\ deadline = (IF step_requested < 1 THEN 1
                           ELSE IF step_requested > 8 THEN 8 ELSE step_requested))
    /\ [][(tool = "wait_job_step" /\ last_response' # last_response) => now < 8]_vars

\* wait_job_step was called with a negative step and returned after its
\* one-second slice
C32_Witness ==
    /\ tool = "wait_job_step" /\ ppc = "returned"
    /\ step_requested < 0
    /\ deadline = 1 /\ now >= deadline /\ slept

\* C33: at least one query per poll call. A poll call that returned has
\* issued a status query, and what it returned is never the fallback
\* {ok: false, error: "no status"}; check_status leaves a slice (for the next
\* one, or to return after the last) only after a query issued in that slice.
C33_AtLeastOneQuery ==
    /\ [](ppc = "returned" =>
            /\ last_answer # NoAnswer
            /\ slice_queried
            /\ ret # NoStatusSnap /\ ret # NoSnap
            /\ ret = Snapshot(last_answer))
    /\ [][(tool = "check_status" /\ ppc = "loop") =>
             /\ slice' # slice => slice_queried
             /\ ppc' = "returned" => slice_queried']_vars

\* check_status returned after its last slice, in which its one query ended
\* in a transport error
C33_Witness ==
    /\ ppc = "returned" /\ tool = "check_status"
    /\ slice = Len(chunks) /\ slice_queried
    /\ last_answer.kind = "transport" /\ ret = ErrSnap
    /\ now = deadline + SleepSeconds

\* C34: an empty candidate counts as no candidate. When the first tool payload
\* of the oracle's response is the empty string, the attempt is logged with
\* that empty candidate and without a Grammar Oracle verdict (the text
\* fragments of the response are not used instead), it is consumed (the next
\* attempt follows, or the loop is exhausted), and nothing is returned,
\* appended or written; so the empty string is never a returned artifact.
C34_EmptyCandidate ==
    /\ [](\A k \in 1..Len(attempts) :
            attempts[k].candidate = Str(<<>>) => attempts[k].verdict = "none")
    /\ [](/\ result # Str(<<>>)
          /\ outfile # Str(<<>>)
          /\ \A k \in 1..Len(tests) : tests[k] # <<>>)
    /\ [][(totalCalls' # totalCalls
             /\ FirstToolInput(response'.output) = Str(<<>>)) =>
               /\ attempts' = Append(attempts, Call(Str(<<>>), "none"))
               /\ attempt' = attempt + 1 \/ gpc' = "raised"
               /\ totalCalls' = totalCalls + 1
               /\ UNCHANGED <<tests, result, outfile, i>>]_vars

\* the first attempt got an empty tool payload next to text fragments that
\* join to a valid document, and the second attempt is due
C34_Witness ==
    /\ prog = "unit" /\ gpc = "attempt" /\ attempt = 1
    /\ response = Output(<<ToolItem(<<>>), TextItem(<<Str(HeadText), Str(StepText)>>)>>)
    /\ GrammarAccepts(Join(Chunks(response.output)))
    /\ attempts = <<[cand |-> i, attempt |-> 0, input |-> AttemptInput(prog, 0),
                     candidate |-> Str(<<>>), verdict |-> "none",
                     timeout |-> create_timeout]>>

-----------------------------------------------------------------------------
(* give_feedback *)

MaxLogLines == 2
MaxShots == 1
ErrorDetailLimit == 3

\* the lines a log is made of: one for each marker the analysis looks for, a
\* line that mentions errors without a marker, and the empty line
LogLines ==
    {"Flow Passed", "[Passed]", "Flow Failed", "[Failed]", "Error: timeout",
     "0 errors", ""}

\* "Flow Passed" in line or "[Passed]" in line
HasPassMarker(line) == line \in {"Flow Passed", "[Passed]"}
\* "Flow Failed" in line or "[Failed]" in line or "Error" in line
HasFailMarker(line) == line \in {"Flow Failed", "[Failed]", "Error: timeout"}
\* 'error' in line.lower() or 'failed' in line.lower()
IsErrorLine(line) == line \in {"Flow Failed", "[Failed]", "Error: timeout", "0 errors"}

\* logs: anything but a str, or the text as logs.split('\n') gives it
LogInputs ==
    {[is_str |-> FALSE, lines |-> <<>>]}
        \cup {[is_str |-> TRUE, lines |-> l] :
                l \in UNION {[1..k -> LogLines] : k \in 1..MaxLogLines}}

\* a screenshot path: not a str, a file that is read, no such file, a file
\* whose read raises
ShotKinds == {"nonstr", "exists", "missing", "unreadable"}

\* screenshot_paths: anything but a list, or a list of paths
ShotInputs ==
    {[is_list |-> FALSE, items |-> <<>>]}
        \cup {[is_list |-> TRUE, items |-> p] : p \in SeqsUpTo(ShotKinds, MaxShots)}

\* the markers are substrings without a newline, so they are found in a line
test_passed(lines) == \E k \in 1..Len(lines) : HasPassMarker(lines[k])
test_failed(lines) == \E k \in 1..Len(lines) : HasFailMarker(lines[k])

\* error_lines[:3], collected only when a failure marker was found
error_details(lines) ==
    IF test_failed(lines)
    THEN SubSeq(SelectSeq(lines, IsErrorLine), 1,
                Min(ErrorDetailLimit, Len(SelectSeq(lines, IsErrorLine))))
    ELSE <<>>

\* one entry per path that is a str; exists is True only for a file that was read
RECURSIVE processed_screenshots(_)
processed_screenshots(paths) ==
    IF paths = <<>> THEN <<>>
    ELSE (CASE Head(paths) = "nonstr" -> <<>>
            [] Head(paths) = "exists" -> <<[exists |-> TRUE, error |-> ""]>>
            [] Head(paths) = "missing" ->
                 <<[exists |-> FALSE, error |-> "Screenshot file not found"]>>
            [] OTHER ->
                 <<[exists |-> FALSE, error |-> "Failed to process screenshot"]>>)
         \o processed_screenshots(Tail(paths))

FailedMessage == "TESTS FAILED - ACTION REQUIRED"
PassedMessage == "TESTS PASSED - UI VALIDATION NEEDED"
UnclearMessage == "UNCLEAR TEST STATUS"

\* the if test_failed / elif test_passed / else chain
feedback_message(lines) ==
    IF test_failed(lines) THEN FailedMessage
    ELSE IF test_passed(lines) THEN PassedMessage
    ELSE UnclearMessage

Advice(t) == [prefix |-> "", text |-> t]

recommendations(lines) ==
    IF test_failed(lines)
    THEN <<Advice("Test execution failed. Review the error details below."),
           Advice("Check the generated test logic and fix any issues with element selectors or timing."),
           Advice("Verify that the UI elements referenced in tests actually exist."),
           Advice("Consider adding wait conditions or updating element IDs if they've changed.")>>
         \o [k \in 1..Len(error_details(lines)) |->
                [prefix |-> "Error: ", text |-> error_details(lines)[k]]]
    ELSE IF test_passed(lines)
    THEN <<Advice("All tests executed successfully!"),
           Advice("Please review the screenshots below to validate the UI meets requirements."),
           Advice("Check if the implementation matches the original user request."),
           Advice("Verify visual design, layout, colors, and user experience."),
           Advice("If UI needs improvements, make changes and re-test.")>>
    ELSE <<Advice("Test status is unclear from the logs."),
           Advice("Review the logs and screenshots to determine what happened."),
           Advice("Consider re-running the tests if results are inconclusive.")>>

action_needed(lines) ==
    IF test_failed(lines)
    THEN "Fix the failing tests by addressing the errors above, then re-run the test pipeline."
    ELSE IF test_passed(lines)
    THEN "Review screenshots and validate UI implementation. Make improvements if needed."
    ELSE "Investigate test results and re-run if necessary."

cursor_focus(lines) ==
    IF test_failed(lines) THEN "Debug and fix test failures"
    ELSE IF test_passed(lines)
    THEN "Review screenshots for UI validation and user experience"
    ELSE "Investigate unclear test results"

\* "passed" if test_passed else "failed" if test_failed else "unclear"
feedback_status(lines) ==
    IF test_passed(lines) THEN "passed"
    ELSE IF test_failed(lines) THEN "failed"
    ELSE "unclear"

\* the dict that is returned as JSON
feedback_response(lines, paths) ==
    [kind |-> "feedback", error |-> "",
     status |-> feedback_status(lines),
     message |-> feedback_message(lines),
     test_passed |-> test_passed(lines),
     test_failed |-> test_failed(lines),
     screenshots_available |->
        Len(SelectSeq(processed_screenshots(paths), LAMBDA sh : sh.exists)),
     total_screenshots |-> Len(processed_screenshots(paths)),
     recommendations |-> recommendations(lines),
     action_needed |-> action_needed(lines),
     screenshots |-> processed_screenshots(paths),
     total_lines |-> Len(lines),
     contains_errors |-> error_details(lines) # <<>>,
     error_details |-> error_details(lines),
     primary_focus |-> cursor_focus(lines),
     areas_to_review |->
        <<IF test_passed(lines) THEN "Screenshots for UI validation"
                                ELSE "Test failure logs and errors",
          "Implementation vs user requirements comparison",
          IF test_passed(lines) THEN "Code improvements needed"
                                ELSE "Debug and fix test issues">>,
     suggested_actions |->
        <<IF test_passed(lines) THEN "Examine each screenshot carefully"
                                ELSE "Fix the test errors listed above",
          IF test_passed(lines) THEN "Compare UI with original user request"
                                ELSE "Check element selectors and timing",
          IF test_passed(lines) THEN "Make UI/UX improvements if needed"
                                ELSE "Re-run tests after fixes">>]

\* {"ok": False, "error": ...}
InputError(msg) == [NoFeedback EXCEPT !.kind = "error", !.error = msg]

FeedbackInit ==
    /\ fb_logs \in LogInputs
    /\ fb_screenshot_paths \in ShotInputs
    /\ fb_user_request \in {"str", "nonstr"}
    /\ fb_ret = NoFeedback
    /\ fpc = "input"

\* give_feedback, lines 373-500
give_feedback ==
    /\ fpc = "input"
    /\ fb_ret' =
         (IF ~fb_logs.is_str THEN InputError("logs must be a string")
          ELSE IF ~fb_screenshot_paths.is_list
          THEN InputError("screenshot_paths must be a list")
          ELSE IF fb_user_request # "str"
          THEN InputError("user_request must be a string")
          ELSE feedback_response(fb_logs.lines, fb_screenshot_paths.items))
    /\ fpc' = "returned"
    /\ UNCHANGED <<fb_logs, fb_screenshot_paths, fb_user_request>>
    /\ UNCHANGED <<genVars, extractVars, pollVars, submitVars, truncVars, promptVars,
                   diffVars, writerVars>>

FeedbackNext == give_feedback

InitFeedback ==
    FeedbackInit /\ GenIdle /\ ExtractIdle /\ PollIdle /\ SubmitIdle /\ TruncIdle
    /\ PromptIdle /\ DiffIdle /\ WriterIdle

SpecFeedback == InitFeedback /\ [][FeedbackNext]_vars

\* C35: feedback verdict consistency. In what give_feedback returns for a log
\* text, status is "failed" exactly when a failure marker was found (the
\* test_failed flag of the summary is set, the message and the
\* recommendations are those of a failure), "passed" exactly when a pass
\* marker and no failure marker was found, and "unclear" exactly when
\* neither was found.
C35_VerdictConsistent ==
    (fpc = "returned" /\ fb_ret.kind = "feedback") =>
        /\ fb_ret.test_failed = test_failed(fb_logs.lines)
        /\ fb_ret.test_passed = test_passed(fb_logs.lines)
        /\ (fb_ret.status = "failed") = fb_ret.test_failed
        /\ (fb_ret.status = "failed") = (fb_ret.message = FailedMessage)
        /\ (fb_ret.status = "failed") =
              (fb_ret.recommendations[1].text
                 = "Test execution failed. Review the error details below.")
        /\ (fb_ret.status = "passed") = (fb_ret.test_passed /\ ~fb_ret.test_failed)
        /\ (fb_ret.status = "passed") = (fb_ret.message = PassedMessage)
        /\ (fb_ret.status = "unclear") = (~fb_ret.test_passed /\ ~fb_ret.test_failed)
        /\ (fb_ret.status = "unclear") = (fb_ret.message = UnclearMessage)

====
